---- MODULE Spec2Model ----
(***************************************************************************)
(* A model of the query core of isagog-ai-cli:                             *)
(*   src/isagog/model/kg_query.py            terms, clauses, queries       *)
(*   src/isagog/generator/sparql_generator.py  the SPARQL renderer         *)
(*                                                                         *)
(* Python strings whose characters the code inspects (startswith, regex,   *)
(* slices) are sequences of one-character strings.  Strings the code only  *)
(* copies or compares as a whole (enum values, dict keys, graph and        *)
(* language names, keywords of the generated text) are TLA+ strings.       *)
(* A Python object of class Identifier, Variable, Value, str or int, or    *)
(* None, is a record [k |-> class, s |-> characters].                      *)
(***************************************************************************)
EXTENDS Integers, Sequences, FiniteSets, TLC

VARIABLES
    q,      \* the UnarySelectQuery under construction
    res,    \* what the last to_dict / new / generate_query call on q returned
    cl,     \* a clause object handled on its own (atomic or composite)
    clres,  \* what the last call on cl returned or raised
    heap    \* two instances built from the same arguments, and the list objects they hold

vars == <<q, res, cl, clres, heap>>

(***************************************************************************)
(* Bounds of the model                                                     *)
(***************************************************************************)
\* clauses a query may hold before a further add is no longer explored
MaxClauses == 3
\* children a composite clause may hold before a further add is no longer explored
MaxChildren == 2
\* random.randint draws are taken from 0..MaxRand instead of 0..1000000
MaxRand == 1
\* children of the composite clauses that are rendered on their own
MaxRendered == 3

(***************************************************************************)
(* Characters and string literals                                          *)
(***************************************************************************)
Lower == {"a", "b", "c", "d", "e", "f", "g", "h", "i", "j", "k", "l", "m",
          "n", "o", "p", "q", "r", "s", "t", "u", "v", "w", "x", "y", "z"}
Upper == {"A", "B", "C", "D", "E", "F", "G", "H", "I", "J", "K", "L", "M",
          "N", "O", "P", "Q", "R", "S", "T", "U", "V", "W", "X", "Y", "Z"}
Digit == {"0", "1", "2", "3", "4", "5", "6", "7", "8", "9"}
\* the character class [a-zA-Z0-9_]
WordChar == Lower \cup Upper \cup Digit \cup {"_"}

StartsWith(s, c) == Len(s) > 0 /\ s[1] = c
EndsWith(s, c) == Len(s) > 0 /\ s[Len(s)] = c
\* re.match(r'^[...]+$', s) for a character class
MatchesClass(s, class) == Len(s) > 0 /\ \A i \in 1..Len(s) : s[i] \in class
\* ':' in arg[:8]
ColonInFirst8(s) == \E i \in 1..Len(s) : i <= 8 /\ s[i] = ":"

_SUBJVAR == <<"_", "s", "u", "b", "j">>
_KINDVAR == <<"_", "k", "i", "n", "d">>
_SCOREVAR == <<"_", "s", "c", "o", "r", "e">>
\* the sentinel "query.subject"
QUERY_SUBJECT == <<"q", "u", "e", "r", "y", ".", "s", "u", "b", "j", "e", "c", "t">>

HexDigit(d) == <<"0", "1", "2", "3", "4", "5", "6", "7", "8", "9",
                 "a", "b", "c", "d", "e", "f">>[d + 1]
RECURSIVE HexDigits(_)
HexDigits(n) == IF n < 16 THEN <<HexDigit(n)>>
                ELSE HexDigits(n \div 16) \o <<HexDigit(n % 16)>>
\* hex(n) for n >= 0
Hex(n) == <<"0", "x">> \o HexDigits(n)

(***************************************************************************)
(* Terms: Identifier, Variable, Value                                      *)
(***************************************************************************)
Obj(k, s) == [k |-> k, s |-> s]
None == Obj("None", <<>>)
PyStr(s) == Obj("str", s)
\* an int below 10, held as its decimal digit
PyInt(s) == Obj("int", s)
\* str(x)
str(x) == IF x.k = "None" THEN <<"N", "o", "n", "e">> ELSE x.s

IsStr(x) == x.k \in {"str", "Identifier", "Variable", "Value"}
\* Python truthiness of None, a str (or subclass) and an int
Truthy(x) == CASE x.k = "None" -> FALSE
               [] x.k = "int" -> x.s # <<"0">>
               [] OTHER -> Len(x.s) > 0
\* a == b for terms as rdflib and str define it: URIRef.__eq__ requires equal
\* types, str.__eq__ compares characters
PyEq(a, b) == CASE a.k = "None" \/ b.k = "None" -> a.k = b.k
                [] a.k = "int" \/ b.k = "int" -> a = b
                [] a.k = "Identifier" -> b.k = "Identifier" /\ a.s = b.s
                [] OTHER -> a.s = b.s

\* the result of a call: a value, or the exception raised
Ok(v) == [ok |-> TRUE, v |-> v, exc |-> "", msg |-> ""]
Raise(exc, msg, v) == [ok |-> FALSE, v |-> v, exc |-> exc, msg |-> msg]
\* an exception passing through a caller: what F makes of the value x returned,
\* or x's exception with the caller's object left as it was, v
Try(x, v, F(_)) == IF x.ok THEN F(x.v) ELSE Raise(x.exc, x.msg, v)
\* the same where the object x carries is the caller's own
Then(x, F(_)) == IF x.ok THEN F(x.v) ELSE x

\* Identifier(value): URIRef construction, never refused
Identifier(x) == Obj("Identifier", str(x))

\* Identifier.is_valid_id
is_valid_id(x) == IF IsStr(x) THEN ~StartsWith(x.s, "?") ELSE FALSE

\* Variable.is_valid_variable_id
is_valid_variable_id(x) == StartsWith(x.s, "?")

\* Variable(value), rnd being what random.randint returns if it is asked
Variable(x, rnd) ==
    CASE ~Truthy(x) -> Ok(Obj("Variable", <<"?">> \o Hex(rnd)))
      [] x.k = "int" -> Ok(Obj("Variable", <<"?", "0", "x">> \o x.s))
      [] StartsWith(x.s, "?") ->
            IF MatchesClass(x.s, WordChar \cup {"?"})
            THEN Ok(Obj("Variable", x.s))
            ELSE Raise("ValueError", "Bad variable name", None)
      [] OTHER ->
            IF MatchesClass(x.s, WordChar)
            THEN Ok(Obj("Variable", <<"?">> \o x.s))
            ELSE Raise("ValueError", "Bad variable name", None)

\* Variable.is_valid_variable_value
is_valid_variable_value(x) == Variable(x, 0).ok

\* Value(value)
Value(x) ==
    IF IsStr(x) /\ ((StartsWith(x.s, "<") /\ EndsWith(x.s, ">")) \/ StartsWith(x.s, "?"))
    THEN Raise("ValueError", "Bad value string", None)
    ELSE Ok(Obj("Value", str(x)))

(***************************************************************************)
(* Comparison                                                              *)
(***************************************************************************)
Comparisons == {"EXACT", "KEYWORD", "REGEX", "SIMILARITY", "GREATER", "LESSER", "ANY"}

\* Comparison.<name>.value
ComparisonValue(m) ==
    CASE m = "EXACT" -> "exact_match"
      [] m = "KEYWORD" -> "keyword_search"
      [] m = "REGEX" -> "regex"
      [] m = "SIMILARITY" -> "similarity"
      [] m = "GREATER" -> "greater_than"
      [] m = "LESSER" -> "lesser_than"
      [] m = "ANY" -> "any"

\* Comparison(value)
Comparison(v) ==
    IF \E m \in Comparisons : ComparisonValue(m) = v
    THEN Ok(CHOOSE m \in Comparisons : ComparisonValue(m) = v)
    ELSE Raise("ValueError", "not a valid Comparison", "")

(***************************************************************************)
(* Dicts: a sequence of entries in insertion order, values tagged by type  *)
(***************************************************************************)
TermV(x) == [t |-> "term", v |-> x]
StrV(s) == [t |-> "str", v |-> s]
BoolV(b) == [t |-> "bool", v |-> b]
NumV(n) == [t |-> "num", v |-> n]
ListV(l) == [t |-> "list", v |-> l]
NoneV == [t |-> "none", v |-> 0]

DictKeys(d) == {d[i].key : i \in 1..Len(d)}
DictHas(d, key) == key \in DictKeys(d)
DictGet(d, key) == d[CHOOSE i \in 1..Len(d) : d[i].key = key].val
\* d.get(key, default)
DictGetOr(d, key, default) == IF DictHas(d, key) THEN DictGet(d, key) ELSE default
\* d[key] = val: a new key goes last, an existing one keeps its place
DictSet(d, key, val) ==
    IF DictHas(d, key)
    THEN [i \in 1..Len(d) |-> IF d[i].key = key THEN [key |-> key, val |-> val] ELSE d[i]]
    ELSE Append(d, [key |-> key, val |-> val])
\* if cond: d[key] = val
DictSetIf(cond, d, key, val) == IF cond THEN DictSet(d, key, val) ELSE d

(***************************************************************************)
(* Clause objects.  One record shape serves the three classes; the fields  *)
(* a class does not have keep the placeholder given by CompositeFields.    *)
(***************************************************************************)
MkAtomic(subject, property, argument, variable, method, project, optional) ==
    [type |-> "atomic", subject |-> subject, optional |-> optional,
     property |-> property, argument |-> argument, variable |-> variable,
     method |-> method, project |-> project, clauses |-> <<>>]

MkComposite(type, subject, clauses, optional) ==
    [type |-> type, subject |-> subject, optional |-> optional,
     property |-> None, argument |-> None, variable |-> None,
     method |-> "", project |-> FALSE, clauses |-> clauses]

\* AtomicClause._instantiate_argument
_instantiate_argument(arg) ==
    CASE arg.k \in {"Variable", "Identifier", "Value"} -> Ok(arg)
      [] arg.k = "int" -> Value(arg)
      [] OTHER ->
            IF StartsWith(str(arg), "?") THEN Variable(PyStr(str(arg)), 0)
            ELSE IF StartsWith(str(arg), "<") \/ ColonInFirst8(str(arg))
                 THEN Ok(Identifier(PyStr(str(arg))))
                 ELSE Value(PyStr(str(arg)))

\* AtomicClause(): every parameter at its default
AtomicClause0 == MkAtomic(None, None, None, None, "ANY", TRUE, FALSE)

\* AtomicClause.__init__
AtomicClause(subject, property, argument, variable, method, project, optional) ==
    Try(IF Truthy(subject) /\ IsStr(subject)
        THEN IF StartsWith(subject.s, "?") THEN Variable(subject, 0) ELSE Ok(Identifier(subject))
        ELSE Ok(subject),
        AtomicClause0,
        LAMBDA subj :
          Try(IF Truthy(argument) THEN _instantiate_argument(argument)
              ELSE IF Truthy(variable) THEN Ok(variable)
              ELSE Ok(None),
              AtomicClause0,
              LAMBDA arg : Ok(MkAtomic(subj, property, arg, variable, method, project, optional))))

\* is_defined without self.property
is_defined_without_property(c) ==
    Truthy(c.subject) /\ (Truthy(c.argument) \/ Truthy(c.variable))

\* AtomicClause.is_defined, as a truth value
is_defined(c) ==
    Truthy(c.subject) /\ Truthy(c.property) /\ (Truthy(c.argument) \/ Truthy(c.variable))

\* the version match at the end of each to_dict: the discriminator goes in for "latest"
WithType(out, version, type) == DictSetIf(version = "latest", out, "type", StrV(type))

\* AtomicClause.to_dict without the lines that emit self.variable
AtomicToDictOfArgument(c, version) ==
    LET d0 == << [key |-> "property", val |-> TermV(c.property)],
                 [key |-> "method", val |-> StrV(ComparisonValue(c.method))],
                 [key |-> "project", val |-> BoolV(c.project)],
                 [key |-> "optional", val |-> BoolV(c.optional)] >>
        d1 == DictSetIf(Truthy(c.subject), d0, "subject", TermV(c.subject))
        d2 == DictSetIf(Truthy(c.argument), d1,
                        CASE c.argument.k = "Value" -> "value"
                          [] c.argument.k = "Variable" -> "variable"
                          [] OTHER -> "identifier",
                        TermV(c.argument))
    IN  WithType(d2, version, "atomic")

\* AtomicClause.to_dict(version=version)
AtomicToDict(c, version) ==
    LET d0 == << [key |-> "property", val |-> TermV(c.property)],
                 [key |-> "method", val |-> StrV(ComparisonValue(c.method))],
                 [key |-> "project", val |-> BoolV(c.project)],
                 [key |-> "optional", val |-> BoolV(c.optional)] >>
        d1 == DictSetIf(Truthy(c.subject), d0, "subject", TermV(c.subject))
        d2 == DictSetIf(Truthy(c.argument), d1,
                        CASE c.argument.k = "Value" -> "value"
                          [] c.argument.k = "Variable" -> "variable"
                          [] OTHER -> "identifier",
                        TermV(c.argument))
        d3 == DictSetIf(Truthy(c.variable), d2, "variable", TermV(c.variable))
    IN  WithType(d3, version, "atomic")

\* the object a dict value stands for where the code expects a term
AsTerm(val) == IF val.t = "term" THEN val.v ELSE None
\* bool(val)
AsBool(val) ==
    CASE val.t = "bool" -> val.v
      [] val.t = "term" -> Truthy(val.v)
      [] val.t = "num" -> val.v # 0
      [] val.t = "list" -> Len(val.v) > 0
      [] val.t = "str" -> val.v # ""
      [] OTHER -> FALSE

\* the subject keyword of AtomicClause.from_dict, resolved (lines 262-278)
ResolveSubjectKw(subject) ==
    IF PyEq(subject, PyStr(QUERY_SUBJECT)) THEN Variable(PyStr(_SUBJVAR), 0)
    ELSE IF Truthy(subject) /\ subject.k \notin {"Variable", "Identifier"}
         THEN IF is_valid_id(PyStr(str(subject))) THEN Ok(Identifier(PyStr(str(subject))))
              ELSE IF is_valid_variable_value(PyStr(str(subject)))
                   THEN Variable(PyStr(str(subject)), 0)
                   ELSE Raise("ValueError", "Invalid subject", None)
         ELSE Ok(subject)

\* Identifier(val) if is_valid_id(val) else Variable(val) if is_valid_variable_id(val) else <other>
IdOrVarOr(x, other) ==
    IF is_valid_id(x) THEN Ok(Identifier(x))
    ELSE IF ~IsStr(x) THEN Raise("AttributeError", "no attribute startswith", None)
    ELSE IF is_valid_variable_id(x) THEN Variable(x, 0)
    ELSE other

\* one turn of the loop of AtomicClause.from_dict over data.items()
AtomicFromDictKey(c, key, val, rnd) ==
    CASE key = "type" ->
            IF val.t = "str" /\ val.v = "atomic" THEN Ok(c)
            ELSE Raise("ValueError", "wrong clause type", c)
      [] key = "property" -> Ok([c EXCEPT !.property = Identifier(AsTerm(val))])
      [] key = "subject" ->
            IF Truthy(c.subject) THEN Ok(c)
            ELSE Try(IdOrVarOr(AsTerm(val), Ok(None)), c,
                     LAMBDA s : IF ~Truthy(s) THEN Raise("ValueError", "Invalid subject value", c)
                                ELSE Ok([c EXCEPT !.subject = s]))
      [] key = "variable" ->
            Try(IF PyEq(AsTerm(val), PyStr(QUERY_SUBJECT))
                THEN Variable(PyStr(_SUBJVAR), 0)
                ELSE Variable(AsTerm(val), rnd),
                c,
                LAMBDA v : Ok([c EXCEPT !.variable = v,
                                        !.argument = IF c.argument.k = "None" THEN v ELSE @]))
      [] key \in {"argument", "identifier"} ->
            Try(IdOrVarOr(AsTerm(val), Value(AsTerm(val))), c,
                LAMBDA a : Ok([c EXCEPT !.argument = a]))
      [] key = "value" ->
            Try(Value(AsTerm(val)), c, LAMBDA a : Ok([c EXCEPT !.argument = a]))
      [] key = "method" ->
            Try(IF val.t = "str" THEN Comparison(val.v)
                ELSE Raise("ValueError", "not a valid Comparison", ""),
                c,
                LAMBDA m : Ok([c EXCEPT !.method = m]))
      [] key = "project" -> Ok([c EXCEPT !.project = AsBool(val)])
      [] key = "optional" -> Ok([c EXCEPT !.optional = AsBool(val)])
      [] OTHER -> Raise("ValueError", "Invalid clause key", c)

RECURSIVE AtomicFromDictLoop(_, _, _, _)
AtomicFromDictLoop(c, data, i, rnd) ==
    IF i > Len(data) THEN Ok(c)
    ELSE Then(AtomicFromDictKey(c, data[i].key, data[i].val, rnd),
              LAMBDA c1 : AtomicFromDictLoop(c1, data, i + 1, rnd))

\* the clause keys AtomicClause.from_dict has a case for
ClauseKeys == {"type", "property", "subject", "variable", "argument", "identifier", "value",
               "method", "project", "optional"}
IsClauseKey(e) == e.key \in ClauseKeys

\* from_dict passing over the keys it has no case for
AtomicFromDictKnownKeys(c, data, subject, rnd) ==
    Try(ResolveSubjectKw(subject), c,
        LAMBDA s : AtomicFromDictLoop([c EXCEPT !.subject = s], SelectSeq(data, IsClauseKey), 1, rnd))

\* AtomicClause.from_dict(data, subject=subject) on the clause object c
AtomicFromDict(c, data, subject, rnd) ==
    Try(ResolveSubjectKw(subject), c,
        LAMBDA s : AtomicFromDictLoop([c EXCEPT !.subject = s], data, 1, rnd))

(***************************************************************************)
(* Random draws.  A call that may mint Variable() names takes r, a         *)
(* function from draw sites <<i, j>> to what random.randint returns there: *)
(* i is the place of a top-level clause (0 for a clause on its own), j the *)
(* place of a child in it (0 for the clause itself).                       *)
(***************************************************************************)
Rand == 0..MaxRand
Draw(r, i, j) == IF <<i, j>> \in DOMAIN r THEN r[<<i, j>>] ELSE 0
\* Variable(): a fresh name from one draw
NewVariable(rnd) == Variable(None, rnd).v

(***************************************************************************)
(* Composite clauses                                                       *)
(***************************************************************************)
\* CompositeClause.__init__
CompositeClause(type, subject, clauses, optional, rnd) ==
    MkComposite(type, IF Truthy(subject) THEN subject ELSE NewVariable(rnd), clauses, optional)

\* ConjunctiveClause.__init__
ConjunctiveClause(clauses, optional, rnd) ==
    CompositeClause("conjunction", None, clauses, optional, rnd)

\* _validate_union_clauses with any() in the place of all()
_validate_union_clauses_any(clauses) ==
    IF Len(clauses) = 0 THEN TRUE
    ELSE \E i \in 1..Len(clauses) : PyEq(clauses[i].subject, clauses[1].subject)

\* DisjunctiveClause._validate_union_clauses
_validate_union_clauses(clauses) ==
    IF Len(clauses) = 0 THEN TRUE
    ELSE \A i \in 1..Len(clauses) : PyEq(clauses[i].subject, clauses[1].subject)

\* DisjunctiveClause.__init__
DisjunctiveClause(subject, clauses, rnd) ==
    LET self == CompositeClause("union", subject, clauses, FALSE, rnd)
    IN  IF ~_validate_union_clauses(clauses)
        THEN Raise("ValueError", "Invalid union clauses", self)
        ELSE Ok(self)

\* add_atomic_clause without subject=self.subject
add_atomic_clause_without_subject(self, property, argument, method, project, optional) ==
    Try(AtomicClause(None, property, argument, None, method, project, optional), self,
        LAMBDA a : Ok([self EXCEPT !.clauses = Append(@, a)]))

\* CompositeClause.add_atomic_clause
add_atomic_clause(self, property, argument, method, project, optional) ==
    Try(AtomicClause(self.subject, property, argument, None, method, project, optional), self,
        LAMBDA a : Ok([self EXCEPT !.clauses = Append(@, a)]))

\* CompositeClause.add_clause
add_clause(self, clause) == [self EXCEPT !.clauses = Append(@, clause)]

\* Clause.to_dict for the three classes; a composite serializes its children
\* with c.to_dict(), that is with the default version
RECURSIVE ClauseToDict(_, _)
ClauseToDict(c, version) ==
    LET children == [i \in 1..Len(c.clauses) |-> ClauseToDict(c.clauses[i], "latest")]
    IN  CASE c.type = "atomic" -> AtomicToDict(c, version)
          [] c.type = "conjunction" ->
                LET d0 == << [key |-> "clauses", val |-> ListV(children)] >>
                    d1 == WithType(d0, version, "conjunction")
                IN  IF c.optional THEN DictSet(d1, "optional", BoolV(TRUE)) ELSE d1
          [] c.type = "union" ->
                LET d0 == << [key |-> "subject", val |-> TermV(c.subject)],
                             [key |-> "clauses", val |-> ListV(children)] >>
                IN  WithType(d0, version, "union")

\* the loop shared by ConjunctiveClause.from_dict and DisjunctiveClause.from_dict:
\* each child dict becomes an AtomicClause whose subject keyword is the child's
\* own 'subject' entry if it has one, the given subject otherwise
RECURSIVE ChildrenFromDict(_, _, _, _, _, _)
ChildrenFromDict(self, dicts, k, subject, r, i) ==
    IF k > Len(dicts) THEN Ok(self)
    ELSE Try(AtomicFromDict(AtomicClause0, dicts[k],
                            AsTerm(DictGetOr(dicts[k], "subject", TermV(subject))),
                            Draw(r, i, Len(self.clauses) + 1)),
             self,
             LAMBDA a : ChildrenFromDict([self EXCEPT !.clauses = Append(@, a)],
                                         dicts, k + 1, subject, r, i))

\* data.get('clauses', [])
ClausesOf(data) == DictGetOr(data, "clauses", ListV(<<>>)).v

\* ConjunctiveClause.from_dict(data, subject=subject)
ConjunctiveFromDict(self, data, subject, r, i) ==
    LET s1 == [self EXCEPT !.subject = subject,
                           !.optional = AsBool(DictGetOr(data, "optional", BoolV(FALSE)))]
    IN  ChildrenFromDict(s1, ClausesOf(data), 1, subject, r, i)

\* DisjunctiveClause.from_dict(data, subject=subject); hasKw tells whether the
\* caller passed the subject keyword
DisjunctiveFromDict(self, data, hasKw, subject, r, i) ==
    ChildrenFromDict(self, ClausesOf(data), 1, IF hasKw THEN subject ELSE self.subject, r, i)

\* clause.from_dict(data, subject=subject) on a clause of any class
ClauseFromDict(self, data, subject, r, i) ==
    CASE self.type = "atomic" -> AtomicFromDict(self, data, subject, Draw(r, i, 0))
      [] self.type = "conjunction" -> ConjunctiveFromDict(self, data, subject, r, i)
      [] self.type = "union" -> DisjunctiveFromDict(self, data, TRUE, subject, r, i)

(***************************************************************************)
(* SelectQuery / UnarySelectQuery                                          *)
(***************************************************************************)
DEFAULT_PREFIXES == << <<"rdf", "http://www.w3.org/2000/01/rdf-schema">>,
                       <<"rdfs", "http://www.w3.org/2001/XMLSchema">>,
                       <<"text", "http://jena.apache.org/text">> >>

\* Identifier(RDF.type); the namespace is written as the prefix rdf:
RDF_TYPE == Obj("Identifier", <<"r", "d", "f", ":", "t", "y", "p", "e">>)

Versions == {"latest", "v1.0.0"}
\* version > "v1.0.0" as Python compares strings
AfterV100(version) == version \in {"v1.0.1", "v1.1.0", "v2.0.0"}

\* SelectQuery.__init__ with clauses=None
SelectQuery(prefixes, graph, limit, lang, min_score) ==
    [subject |-> None, clauses |-> <<>>, prefixes |-> prefixes,
     graph |-> graph, limit |-> limit, lang |-> lang, min_score |-> min_score]

\* UnarySelectQuery._new_id
_new_id(x) ==
    IF x.k \in {"Identifier", "Variable"} THEN Ok(x)
    ELSE IF StartsWith(str(x), "?") THEN Variable(PyStr(str(x)), 0)
    ELSE Ok(Identifier(PyStr(str(x))))

\* SelectQuery.add with the KEYWORD branch taken for every clause
SelectAddClauseInFront(self, clause) == [self EXCEPT !.clauses = <<clause>> \o @]

\* SelectQuery.add without the KEYWORD branch: every clause is appended
SelectAddClauseAppending(self, clause) == [self EXCEPT !.clauses = Append(@, clause)]

\* the tail of SelectQuery.add for one clause object (lines 505-509): a KEYWORD
\* atomic clause goes to the front, any other clause to the end
SelectAddClause(self, clause) ==
    IF clause.type = "atomic" /\ clause.method = "KEYWORD"
    THEN [self EXCEPT !.clauses = <<clause>> \o @]
    ELSE [self EXCEPT !.clauses = Append(@, clause)]

\* UnarySelectQuery.add without the line that gives the clause the query's subject
UnaryAddClauseKeepingSubject(self, clause) == SelectAddClause(self, clause)

\* UnarySelectQuery.add(clause) for a clause object
UnaryAddClause(self, clause) ==
    SelectAddClause(self, IF clause.subject.k = "None"
                          THEN [clause EXCEPT !.subject = self.subject]
                          ELSE clause)

\* UnarySelectQuery.add(<list>, **kwargs): super(clause, **kwargs) is a call of
\* the builtin super with a list, which raises
UnaryAddList(self, clauses, kwargs) ==
    Raise("TypeError", "super() argument 1 must be a type, not list", self)

\* UnarySelectQuery.add(**kwargs): the clause is built from the keyword data
UnaryAddKw(self, kwargs, r) ==
    LET i == Len(self.clauses) + 1
        kw == IF Len(kwargs) > 0 /\ ~DictHas(kwargs, "subject")
              THEN DictSet(kwargs, "subject", TermV(self.subject))
              ELSE kwargs
        type == DictGetOr(kw, "type", StrV("atomic"))
    IN  IF Len(kwargs) = 0 THEN Raise("AssertionError", "", self)
        ELSE Try(CASE type = StrV("atomic") ->
                        AtomicFromDict(AtomicClause0, kw, None, Draw(r, i, 0))
                   [] type = StrV("union") ->
                        DisjunctiveFromDict(DisjunctiveClause(None, <<>>, Draw(r, i, 0)).v,
                                            kw, FALSE, None, r, i)
                   [] type = StrV("conjunction") ->
                        ConjunctiveFromDict(ConjunctiveClause(<<>>, FALSE, Draw(r, i, 0)),
                                            kw, None, r, i)
                   [] OTHER -> Raise("ValueError", "unknown clause type", AtomicClause0),
                 self,
                 LAMBDA built : Ok(SelectAddClause(self, built)))

\* the loop of add_kinds (lines 624-625) from kind_refs[k] on, k counting from 1:
\*     for kind in kind_refs[1:]: kind_union.add_atomic_clause(...)
RECURSIVE KindUnion(_, _, _)
KindUnion(kind_union, kind_refs, k) ==
    IF k > Len(kind_refs) THEN kind_union
    ELSE Then(kind_union,
              LAMBDA u : KindUnion(add_atomic_clause(u, RDF_TYPE, Identifier(kind_refs[k]),
                                                     "EXACT", FALSE, FALSE),
                                   kind_refs, k + 1))

\* add_kinds with every kind, the first one too, in the union
add_kinds_all_in_union(self, kind_refs) ==
    IF Len(kind_refs) = 0 THEN Ok(self)
    ELSE Try(KindUnion(DisjunctiveClause(self.subject, <<>>, 0), kind_refs, 1), self,
             LAMBDA kind_union : Ok(UnaryAddClause(self, kind_union)))

\* UnarySelectQuery.add_kinds
add_kinds(self, kind_refs) ==
    IF Len(kind_refs) = 0 THEN Ok(self)
    ELSE
      Try(AtomicClause(self.subject, RDF_TYPE, Identifier(kind_refs[1]), None,
                       "EXACT", FALSE, FALSE),
          self,
          LAMBDA first :
            IF Len(kind_refs) > 1
            THEN Try(KindUnion(DisjunctiveClause(self.subject, <<>>, 0), kind_refs, 2),
                     UnaryAddClause(self, first),
                     LAMBDA kind_union : Ok(UnaryAddClause(UnaryAddClause(self, first), kind_union)))
            ELSE Ok(UnaryAddClause(self, first)))

\* UnarySelectQuery.add_match_clause
add_match_clause(self, predicate, argument, method, project, optional) ==
    Try(AtomicClause(None, predicate, argument, None, method, project, optional), self,
        LAMBDA c : Ok(UnaryAddClause(self, c)))

\* UnarySelectQuery.add_fetch_clause
add_fetch_clause(self, predicate) ==
    Try(AtomicClause(None, predicate, None, None, "ANY", TRUE, TRUE), self,
        LAMBDA c : Ok(UnaryAddClause(self, c)))

\* UnarySelectQuery.__init__ with prefixes=None and clauses=None
UnarySelectQuery(subject, kinds, graph, limit, lang, min_score) ==
    LET q0 == SelectQuery(DEFAULT_PREFIXES, graph, limit, lang, min_score)
    IN  Try(IF Truthy(subject) THEN _new_id(subject) ELSE Variable(PyStr(_SUBJVAR), 0),
            q0,
            LAMBDA subj :
              IF Len(kinds) = 0 THEN Ok([q0 EXCEPT !.subject = subj])
              ELSE Try(AtomicClause(subj, RDF_TYPE, Variable(PyStr(_KINDVAR), 0).v, None,
                                    "ANY", TRUE, FALSE),
                       [q0 EXCEPT !.subject = subj],
                       LAMBDA kindvar :
                         add_kinds(UnaryAddClause([q0 EXCEPT !.subject = subj], kindvar), kinds)))

\* UnarySelectQuery(): every parameter at its default
UnarySelectQuery0 == UnarySelectQuery(None, <<>>, "defaultGraph", -1, "en", NoneV).v

\* truth value of min_score: None and 0 are false
ScoreSet(min_score) == min_score.t = "num" /\ min_score.v # 0

\* UnarySelectQuery.to_dict
QueryToDict(self, version) ==
    LET d0 == IF version = "latest" \/ AfterV100(version)
              THEN << [key |-> "subject", val |-> TermV(self.subject)] >>
              ELSE << >>
        d1 == DictSet(d0, "clauses",
                      ListV([i \in 1..Len(self.clauses) |-> ClauseToDict(self.clauses[i], version)]))
        d2 == DictSet(d1, "graph", StrV(self.graph))
        d3 == DictSet(d2, "limit", NumV(self.limit))
        d4 == DictSet(d3, "lang", StrV(self.lang))
    IN  IF ScoreSet(self.min_score) THEN DictSet(d4, "min_score", self.min_score) ELSE d4

\* UnarySelectQuery.is_scored
is_scored(self) ==
    \E i \in 1..Len(self.clauses) :
        self.clauses[i].type = "atomic" /\ self.clauses[i].method = "KEYWORD"

\* the clauses loop of UnarySelectQuery.from_dict (lines 647-659)
RECURSIVE ClausesFromDict(_, _, _, _)
ClausesFromDict(self, dicts, k, r) ==
    IF k > Len(dicts) THEN Ok(self)
    ELSE
      LET i == Len(self.clauses) + 1
          type == DictGetOr(dicts[k], "type", StrV("atomic"))
          known == type \in {StrV("atomic"), StrV("union"), StrV("conjunction")}
          fresh == CASE type = StrV("union") -> DisjunctiveClause(None, <<>>, Draw(r, i, 0)).v
                     [] type = StrV("conjunction") -> ConjunctiveClause(<<>>, FALSE, Draw(r, i, 0))
                     [] OTHER -> AtomicClause0
          subject == AsTerm(DictGetOr(dicts[k], "subject", TermV(self.subject)))
      IN  IF ~known THEN Raise("ValueError", "Clause type unknown", self)
          ELSE Try(ClauseFromDict(fresh, dicts[k], subject, r, i), self,
                   LAMBDA built : ClausesFromDict(UnaryAddClause(self, built), dicts, k + 1, r))

\* one turn of the loop of UnarySelectQuery.from_dict over data.items()
QueryFromDictKey(self, key, val, r) ==
    CASE key = "subject" ->
            Try(_new_id(AsTerm(val)), self, LAMBDA s : Ok([self EXCEPT !.subject = s]))
      [] key = "kinds" ->
            IF val.t = "list" THEN add_kinds(self, val.v)
            ELSE Raise("TypeError", "kinds is not a list", self)
      [] key = "clauses" ->
            IF val.t = "list" THEN ClausesFromDict(self, val.v, 1, r)
            ELSE Raise("TypeError", "clauses is not a list", self)
      [] key = "graph" -> Ok([self EXCEPT !.graph = IF val.t = "str" THEN val.v ELSE "None"])
      [] key = "limit" ->
            CASE val.t = "num" -> Ok([self EXCEPT !.limit = val.v])
              [] val.t = "str" -> Raise("ValueError", "invalid literal for int()", self)
              [] OTHER -> Raise("TypeError", "int() argument", self)
      [] key = "lang" -> Ok([self EXCEPT !.lang = IF val.t = "str" THEN val.v ELSE "None"])
      [] key \in {"min_score", "minScore"} ->
            CASE val.t = "num" -> Ok([self EXCEPT !.min_score = val])
              [] val.t = "str" -> Raise("ValueError", "could not convert string to float", self)
              [] OTHER -> Raise("TypeError", "float() argument", self)
      [] key = "dataset" -> Ok(self)
      \* case _: logging.error("Illegal key %s", key), and the loop goes on
      [] OTHER -> Ok(self)

RECURSIVE QueryFromDictLoop(_, _, _, _)
QueryFromDictLoop(self, data, k, r) ==
    IF k > Len(data) THEN Ok(self)
    ELSE Then(QueryFromDictKey(self, data[k].key, data[k].val, r),
              LAMBDA s : QueryFromDictLoop(s, data, k + 1, r))

\* from_dict without its try / except: the exception leaves as it was raised
NotWrapped(s) == s

\* except Exception as e: raise ValueError(f"Malformed query due to: {e}")
Malformed(s) == IF s.ok THEN s ELSE Raise("ValueError:Malformed query", s.msg, s.v)

\* UnarySelectQuery.from_dict: whatever the loop raises is raised again as one
\* ValueError, "Malformed query due to: <cause>"; the cause is kept in msg
QueryFromDict(self, data, r) ==
    Malformed(QueryFromDictLoop(self, data, 1, r))

\* UnarySelectQuery.new
new(rdata, r) == QueryFromDict(UnarySelectQuery0, rdata, r)

(***************************************************************************)
(* SPARQLGenerator.  The text is a sequence of tokens: Kw is a piece of    *)
(* literal text of the generator, Tm the characters of an interpolated     *)
(* term, Nm an interpolated number.                                        *)
(***************************************************************************)
Kw(s) == [k |-> "kw", s |-> s]
Tm(chars) == [k |-> "tm", s |-> chars]
Nm(n) == [k |-> "nm", s |-> n]

\* Identifier.n3()
N3(x) == <<"<">> \o x.s \o <<">">>

\* AtomicClause.n3
AtomicN3(c) ==
    LET subj == IF c.subject.k = "Identifier" THEN N3(c.subject) ELSE str(c.subject)
        pred == IF c.property.k = "Identifier" THEN N3(c.property)
                ELSE <<"<">> \o str(c.property) \o <<">">>
        val == IF Truthy(c.argument)
               THEN IF c.argument.k = "Identifier" THEN N3(c.argument) ELSE str(c.argument)
               ELSE IF Truthy(c.variable)
                    THEN IF c.variable.k = "Variable" THEN c.variable.s
                         ELSE <<"?">> \o str(c.variable)
                    ELSE str(None)
    IN  << Tm(subj), Kw(" "), Tm(pred), Kw(" "), Tm(val) >>

\* the REGEX branch of generate_clause (lines 24-27)
RegexText(c, tmp_var) ==
    << Tm(str(c.subject)), Kw(" "), Tm(N3(c.property)), Kw(" "), Tm(tmp_var.s), Kw("\n"),
       Kw("\n\t\tFILTER  regex("), Tm(tmp_var.s), Kw(", \""), Tm(str(c.argument)),
       Kw("\", \"i\")") >>

\* the GREATER and LESSER branches of generate_clause (lines 30-39), which differ
\* in the text before FILTER and in the operator
CompareText(c, var, lead, op) ==
    << Tm(str(c.subject)), Kw(" "), Tm(N3(c.property)), Kw(" "), Tm(str(var)), Kw("\n"),
       Kw(lead), Tm(str(var)), Kw(op), Tm(str(c.argument)), Kw("\")") >>

\* Variable() whether or not the clause has a variable
VariableAlwaysNew(c, rnd) == NewVariable(rnd)

\* clause.variable if clause.variable else Variable()
VariableOrNew(c, rnd) == IF Truthy(c.variable) THEN c.variable ELSE NewVariable(rnd)

\* the match over clause.method in generate_clause (lines 21-41); rnd is the draw
\* of the Variable() the branch may mint
AtomicBody(c, rnd) ==
    CASE c.method \in {"EXACT", "ANY"} -> Ok(AtomicN3(c))
      [] c.method = "KEYWORD" ->
            Ok(<< Kw("("), Tm(str(c.subject)), Kw(" ?"), Tm(_SCOREVAR),
                  Kw(") text:query \""), Tm(str(c.argument)), Kw("\"") >>)
      [] c.method = "SIMILARITY" -> Ok(<< >>)
      [] c.method \in {"REGEX", "GREATER", "LESSER"} ->
            IF c.property.k # "Identifier"
            THEN Raise("AttributeError", "no attribute n3", << >>)
            ELSE CASE c.method = "REGEX" -> Ok(RegexText(c, NewVariable(rnd)))
                   [] c.method = "GREATER" ->
                        Ok(CompareText(c, VariableOrNew(c, rnd), "\t\tFILTER (", " > \""))
                   [] c.method = "LESSER" ->
                        Ok(CompareText(c, VariableOrNew(c, rnd), "FILTER (", " < \""))
      [] OTHER -> Raise("ValueError", c.method, << >>)

\* generate_clause for an AtomicClause (lines 12-48)
GenerateAtomic(c, rnd) ==
    IF ~is_defined(c) THEN Raise("ValueError", "Clause not defined", << >>)
    ELSE Then(AtomicBody(c, rnd),
              LAMBDA body : IF c.optional
                            THEN Ok(<<Kw("OPTIONAL { ")>> \o body \o <<Kw(" }\n")>>)
                            ELSE Ok(body \o <<Kw(" .\n")>>))

RECURSIVE generate_clause(_, _, _, _)
RECURSIVE GenerateEach(_, _, _, _, _)

\* for sub_clause in clauses[from:]: write(indent + generate_clause(sub_clause));
\* from counts from 1 here
GenerateEach(clauses, from, indent, r, i) ==
    IF from > Len(clauses) THEN Ok(<< >>)
    ELSE Then(generate_clause(clauses[from], r, i, from),
              LAMBDA head :
                Then(GenerateEach(clauses, from + 1, indent, r, i),
                     LAMBDA tail : Ok(<<Kw(indent)>> \o head \o tail)))

\* SPARQLGenerator.generate_clause; the clause is child j (0: not a child) of
\* the top-level clause i
generate_clause(clause, r, i, j) ==
    CASE clause.type = "atomic" -> GenerateAtomic(clause, Draw(r, i, j))
      [] clause.type \in {"conjunction", "union"} /\ Len(clause.clauses) = 0 ->
            Raise("IndexError", "list index out of range", << >>)
      [] clause.type = "conjunction" /\ Len(clause.clauses) > 1 ->
            Then(GenerateEach(clause.clauses, 2, "\t\t\t", r, i),
                 LAMBDA rest :
                   Ok((IF clause.optional THEN <<Kw("OPTIONAL")>> ELSE << >>)
                      \o <<Kw("\t{\n")>> \o rest \o <<Kw("\t\t}\n")>>))
      [] clause.type = "conjunction" /\ Len(clause.clauses) = 1 ->
            Then(generate_clause(clause.clauses[1], r, i, 1),
                 LAMBDA one : Ok(<<Kw("\t\t\t")>> \o one))
      [] clause.type = "union" /\ Len(clause.clauses) > 1 ->
            Then(generate_clause(clause.clauses[1], r, i, 1),
                 LAMBDA first :
                   Then(GenerateEach(clause.clauses, 2, "\t\t\t", r, i),
                        LAMBDA rest :
                          Ok(<<Kw("\t{\n"), Kw("\t\t{\n"), Kw("\t\t\t")>> \o first
                             \o <<Kw("\t\t}\n"), Kw("\tUNION {\n")>> \o rest
                             \o <<Kw("\t\t}\n"), Kw("\t}\n")>>)))
      [] clause.type = "union" /\ Len(clause.clauses) = 1 ->
            Then(generate_clause(clause.clauses[1], r, i, 1),
                 LAMBDA one : Ok(<<Kw("\tUNION {\n"), Kw("\t\t\t")>> \o one \o <<Kw("\t}\n")>>))
      [] OTHER -> Raise("ValueError", "Unsupported clause type", << >>)

\* project_vars without the lines that collect the subjects
project_vars_of_arguments(self) ==
    {self.clauses[i].argument.s :
        i \in {p \in 1..Len(self.clauses) :
                  /\ self.clauses[p].type = "atomic" /\ self.clauses[p].project
                  /\ self.clauses[p].argument.k = "Variable"}}

\* SelectQuery.project_vars: a set of variable names
project_vars(self) ==
    LET proj == {i \in 1..Len(self.clauses) :
                    self.clauses[i].type = "atomic" /\ self.clauses[i].project}
    IN  {self.clauses[i].argument.s : i \in {p \in proj : self.clauses[p].argument.k = "Variable"}}
        \cup {self.clauses[i].subject.s : i \in {p \in proj : self.clauses[p].subject.k = "Variable"}}

\* the orders in which a Python set may be iterated
Orders(S) == {o \in [1..Cardinality(S) -> S] : \A a, b \in 1..Cardinality(S) : o[a] = o[b] => a = b}

\* UnarySelectQuery.atom_clauses / conjunctive_clauses / disjunctive_clauses, as
\* the places of the clauses in self.clauses
ClausesOfType(self, type) == {i \in 1..Len(self.clauses) : self.clauses[i].type = type}
has_disjunctive_clauses(self) == ClausesOfType(self, "union") # {}

\* for clause in <the clauses at places idx, in list order>:
\*     write(indent + clause.to_sparql())
RECURSIVE WriteClauses(_, _, _, _, _)
WriteClauses(self, idx, from, indent, r) ==
    IF from > Len(self.clauses) THEN Ok(<< >>)
    ELSE IF from \notin idx THEN WriteClauses(self, idx, from + 1, indent, r)
    ELSE Then(generate_clause(self.clauses[from], r, from, 0),
              LAMBDA head :
                Then(WriteClauses(self, idx, from + 1, indent, r),
                     LAMBDA tail :
                       Ok((IF indent = "" THEN << >> ELSE <<Kw(indent)>>) \o head \o tail)))

RECURSIVE Flatten(_)
Flatten(ss) == IF Len(ss) = 0 THEN << >> ELSE Head(ss) \o Flatten(Tail(ss))

\* the WHERE body with the else branch taken for every query: the clauses in
\* the order of the clause list
WhereBodyInListOrder(query, r) == WriteClauses(query, 1..Len(query.clauses), 1, "\t", r)

\* the WHERE body of generate_query (lines 103-117)
WhereBody(query, r) ==
    IF has_disjunctive_clauses(query)
    THEN Then(WriteClauses(query, ClausesOfType(query, "atomic"), 1, "\t\t", r),
           LAMBDA atoms :
             Then(WriteClauses(query, ClausesOfType(query, "conjunction"), 1, "\t\t", r),
               LAMBDA conjs :
                 Then(WriteClauses(query, ClausesOfType(query, "union"), 1, "", r),
                   LAMBDA disjs :
                     Ok(<<Kw("\t{\n")>> \o atoms \o conjs \o <<Kw("\t}\n")>> \o disjs))))
    ELSE WriteClauses(query, 1..Len(query.clauses), 1, "\t", r)

\* SPARQLGenerator.generate_query; order is the order in which the set
\* project_vars() happens to be iterated
generate_query(query, r, order) ==
    LET prefixes == Flatten([p \in 1..Len(query.prefixes) |->
                        << Kw("PREFIX "), Kw(query.prefixes[p][1]), Kw(": <"),
                           Kw(query.prefixes[p][2]), Kw("#>\n") >>])
        select == <<Kw("SELECT distinct ")>>
                  \o Flatten([v \in 1..Len(order) |-> << Kw(" "), Tm(order[v]), Kw(" ") >>])
                  \o (IF is_scored(query) THEN << Kw(" ?"), Tm(_SCOREVAR), Kw(" ") >> ELSE << >>)
                  \o <<Kw(" WHERE {\n")>>
        floor == IF ScoreSet(query.min_score)
                 THEN << Kw("\tFILTER (?"), Tm(_SCOREVAR), Kw(" >= "),
                         Nm(query.min_score.v), Kw(")\n") >>
                 ELSE << >>
        tail == <<Kw("}\n")>>
                \o (IF is_scored(query)
                    THEN << Kw("ORDER BY DESC(?"), Tm(_SCOREVAR), Kw(")\n") >> ELSE << >>)
                \o (IF query.limit > 0
                    THEN << Kw("LIMIT "), Nm(query.limit), Kw("\n") >> ELSE << >>)
    IN  Then(WhereBody(query, r), LAMBDA body : Ok(prefixes \o select \o body \o floor \o tail))

(***************************************************************************)
(* Inputs of the model                                                     *)
(***************************************************************************)
ALICE == <<"e", ":", "a">>
BOB == <<"e", ":", "b">>
AGE == <<"e", ":", "p">>
NAME == <<"e", ":", "r">>
KIND1 == <<"e", ":", "k">>
KIND2 == <<"e", ":", "l">>
KIND3 == <<"e", ":", "m">>
TEXT == <<"v">>

Id(s) == Obj("Identifier", s)
Var(s) == Obj("Variable", <<"?">> \o s)
Val(s) == Obj("Value", s)

\* what the last call returned or raised: op names the call, arg is the
\* argument the call was given where a property has to name it
NoRes == [op |-> "", arg |-> << >>, version |-> "", ok |-> TRUE, exc |-> "", msg |-> "",
          dict |-> << >>, query |-> UnarySelectQuery0, text |-> << >>, vars |-> {}]
NoClause == MkComposite("none", None, << >>, FALSE)
\* no instances and no list objects
NoHeap == [lists |-> << >>, a |-> [class |-> "none", obj |-> NoClause],
           b |-> [class |-> "none", obj |-> NoClause]]

\* the record of a call op(arg) whose outcome is x
Outcome(op, arg, x) ==
    [NoRes EXCEPT !.op = op, !.arg = arg, !.ok = x.ok, !.exc = x.exc, !.msg = x.msg]

\* the constructor calls the model starts from: every subject with every kind
\* list under the default options, and the options varied on the default subject
CtorArgs ==
    [subject : {None, Id(ALICE), PyStr(<<"?", "s">>)},
     kinds : {<< >>, <<PyStr(KIND1)>>, <<PyStr(KIND1), PyStr(KIND2)>>},
     limit : {-1}, min_score : {NoneV}]
    \cup
    [subject : {None}, kinds : {<< >>}, limit : {-1, 5}, min_score : {NoneV, NumV(0), NumV(2)}]

\* the clause objects handed to add
AddInputs ==
    { AtomicClause(None, Id(AGE), Val(TEXT), None, "KEYWORD", TRUE, FALSE).v,
      AtomicClause(Id(BOB), Id(NAME), Val(TEXT), None, "KEYWORD", FALSE, FALSE).v,
      AtomicClause(Id(BOB), Id(AGE), PyInt(<<"5">>), Var(<<"y">>), "GREATER", TRUE, FALSE).v,
      AtomicClause(None, Id(NAME), Var(<<"x">>), None, "ANY", TRUE, TRUE).v,
      ConjunctiveClause(<< AtomicClause(Id(BOB), Id(AGE), Val(TEXT), None, "EXACT", FALSE, FALSE).v,
                           AtomicClause(Id(BOB), Id(NAME), Var(<<"x">>), None, "ANY", TRUE, FALSE).v >>,
                        TRUE, 0) }

\* the keyword data handed to add(**kwargs)
AddKwInputs ==
    { << [key |-> "property", val |-> TermV(PyStr(NAME))],
         [key |-> "value", val |-> TermV(PyStr(TEXT))],
         [key |-> "method", val |-> StrV("keyword_search")] >>,
      << [key |-> "property", val |-> TermV(PyStr(AGE))],
         [key |-> "variable", val |-> TermV(PyStr(<<"z">>))] >> }

KindLists == { <<PyStr(KIND1)>>, <<PyStr(KIND1), PyStr(KIND2)>>,
               <<PyStr(KIND1), PyStr(KIND2), PyStr(KIND3)>> }

(***************************************************************************)
(* The life of one query: construction, the mutators, and the calls that   *)
(* read it                                                                 *)
(***************************************************************************)
\* q = UnarySelectQuery(subject=..., kinds=..., limit=..., min_score=...)
Init ==
    /\ \E a \in CtorArgs :
          /\ q = UnarySelectQuery(a.subject, a.kinds, "defaultGraph", a.limit, "en", a.min_score).v
          /\ res = [NoRes EXCEPT !.op = "__init__", !.arg = a.kinds]
    /\ cl = NoClause
    /\ clres = NoRes
    /\ heap = NoHeap

Room == Len(q.clauses) < MaxClauses

\* a mutator op(arg) of q with outcome x: the query it leaves and its record
Mutate(op, arg, x) ==
    /\ q' = x.v
    /\ res' = Outcome(op, arg, x)
    /\ UNCHANGED <<cl, clres, heap>>

\* q.add(clause)
Add == Room /\ \E c \in AddInputs : Mutate("add", c, Ok(UnaryAddClause(q, c)))

\* q.add(**kwargs)
AddKw == Room /\ \E kwargs \in AddKwInputs : Mutate("add(**kwargs)", kwargs, UnaryAddKw(q, kwargs, << >>))

\* q.add([clause, ...])
AddList == Room /\ \E c \in AddInputs : Mutate("add(list)", <<c>>, UnaryAddList(q, <<c>>, << >>))

\* q.add_kinds(kind_refs)
AddKinds == Room /\ \E kinds \in KindLists : Mutate("add_kinds", kinds, add_kinds(q, kinds))

\* q.add_fetch_clause(predicate)
AddFetchClause ==
    Room /\ \E p \in {PyStr(AGE), PyStr(NAME)} :
                Mutate("add_fetch_clause", p, add_fetch_clause(q, p))

\* q.add_match_clause(predicate, argument, method)
AddMatchClause ==
    Room /\ \E m \in {"EXACT", "REGEX", "KEYWORD"} :
                Mutate("add_match_clause", m,
                       add_match_clause(q, Id(NAME), PyStr(TEXT), m, FALSE, FALSE))

\* q.to_dict(version)
ToDict ==
    /\ \E v \in Versions :
          res' = [NoRes EXCEPT !.op = "to_dict", !.version = v, !.dict = QueryToDict(q, v)]
    /\ UNCHANGED <<q, cl, clres, heap>>

\* the draw sites of the composite clauses UnarySelectQuery.new builds for q
NewSites(self) == {<<i, 0>> : i \in {k \in 1..Len(self.clauses) : self.clauses[k].type # "atomic"}}

\* the record of new(...) with outcome n
Rebuilt(v, n) == [Outcome("new", << >>, n) EXCEPT !.version = v, !.query = n.v]

\* UnarySelectQuery.new(q.to_dict(version))
New ==
    /\ \E v \in Versions : \E r \in [NewSites(q) -> Rand] :
          res' = Rebuilt(v, new(QueryToDict(q, v), r))
    /\ UNCHANGED <<q, cl, clres, heap>>

\* whether rendering the atomic clause mints a Variable()
Mints(c) == c.type = "atomic"
            /\ (c.method = "REGEX" \/ (c.method \in {"GREATER", "LESSER"} /\ ~Truthy(c.variable)))
\* the draw sites of generate_query
GenSites(self) ==
    {<<i, 0>> : i \in {k \in 1..Len(self.clauses) : Mints(self.clauses[k])}}
    \cup UNION { {<<i, j>> : j \in {k \in 1..Len(self.clauses[i].clauses) :
                                        Mints(self.clauses[i].clauses[k])}}
                 : i \in 1..Len(self.clauses) }

\* the record of a rendering call op with outcome g
Rendered(op, g) == [Outcome(op, << >>, g) EXCEPT !.text = g.v]

\* SPARQLGenerator().generate_query(q)
GenerateQuery ==
    /\ \E r \in [GenSites(q) -> Rand] : \E order \in Orders(project_vars(q)) :
          res' = Rendered("generate_query", generate_query(q, r, order))
    /\ UNCHANGED <<q, cl, clres, heap>>

(***************************************************************************)
(* Specifications of a query.  Spec is the building of a query with every  *)
(* mutator; SpecRead builds with add_fetch_clause and add_match_clause and *)
(* reads the query with to_dict and generate_query; SpecRoundTrip builds   *)
(* with add, add_kinds and add_fetch_clause and passes the query through   *)
(* to_dict and new.                                                        *)
(***************************************************************************)
Next == Add \/ AddKw \/ AddList \/ AddKinds \/ AddFetchClause \/ AddMatchClause

Spec == Init /\ [][Next]_vars

\* q.project_vars()
ProjectVars ==
    /\ res' = [NoRes EXCEPT !.op = "project_vars", !.vars = project_vars(q)]
    /\ UNCHANGED <<q, cl, clres, heap>>

NextProject == Add \/ AddKw \/ AddKinds \/ AddFetchClause \/ ProjectVars

SpecProject == Init /\ [][NextProject]_vars

NextRead == AddFetchClause \/ AddMatchClause \/ ToDict \/ GenerateQuery

SpecRead == Init /\ [][NextRead]_vars

NextRoundTrip == Add \/ AddKinds \/ AddFetchClause \/ New

SpecRoundTrip == Init /\ [][NextRoundTrip]_vars

(***************************************************************************)
(* One atomic clause on its own: construction, to_dict, generate_clause    *)
(***************************************************************************)
\* the arguments AtomicClause is constructed with
ClauseArgs ==
    [subject : {None, Id(ALICE), PyStr(<<"?", "s">>)},
     property : {None, Id(AGE)},
     argument : {None, Val(TEXT), Id(BOB), Var(<<"x">>), PyInt(<<"5">>), PyStr(TEXT)},
     variable : {None, Var(<<"y">>)},
     method : Comparisons,
     optional : BOOLEAN]

\* the clause a constructor call op(arg) with outcome x leaves, and its record
Construct(op, arg, x) ==
    /\ cl = IF x.ok THEN x.v ELSE NoClause
    /\ clres = Outcome(op, arg, x)
    /\ q = UnarySelectQuery0
    /\ res = NoRes
    /\ heap = NoHeap

\* cl = AtomicClause(subject=..., property=..., argument=..., variable=..., method=...)
InitClause ==
    \E a \in ClauseArgs :
        Construct("AtomicClause", a,
                  AtomicClause(a.subject, a.property, a.argument, a.variable, a.method,
                               TRUE, a.optional))

\* cl.to_dict(version=version)
ClauseToDictCall ==
    /\ cl.type # "none"
    /\ \E v \in Versions :
          clres' = [NoRes EXCEPT !.op = "to_dict", !.version = v, !.dict = ClauseToDict(cl, v)]
    /\ UNCHANGED <<q, res, cl, heap>>

\* the draw sites of generate_clause for a clause on its own
ClauseSites(c) ==
    (IF Mints(c) THEN {<<0, 0>>} ELSE {})
    \cup {<<0, j>> : j \in {k \in 1..Len(c.clauses) : Mints(c.clauses[k])}}

\* SPARQLGenerator().generate_clause(cl)
GenerateClause ==
    /\ cl.type # "none"
    /\ \E r \in [ClauseSites(cl) -> Rand] :
          clres' = Rendered("generate_clause", generate_clause(cl, r, 0, 0))
    /\ UNCHANGED <<q, res, cl, heap>>

NextClause == ClauseToDictCall \/ GenerateClause

SpecClause == InitClause /\ [][NextClause]_vars

(***************************************************************************)
(* One DisjunctiveClause on its own: construction, add_clause,             *)
(* add_atomic_clause, from_dict                                            *)
(***************************************************************************)
\* the atomic clauses a union is given
UnionChildren ==
    { AtomicClause(Id(ALICE), Id(AGE), Val(TEXT), None, "EXACT", FALSE, FALSE).v,
      AtomicClause(Id(BOB), Id(AGE), Val(TEXT), None, "EXACT", FALSE, FALSE).v,
      AtomicClause(PyStr(<<"?", "s">>), Id(NAME), Val(TEXT), None, "EXACT", FALSE, FALSE).v,
      AtomicClause(None, Id(NAME), Val(TEXT), None, "EXACT", FALSE, FALSE).v }

\* the lists of at most MaxChildren of them
UnionLists == UNION {[1..n -> UnionChildren] : n \in 0..MaxChildren}

UnionSubjects == {None, Id(ALICE), Var(<<"s">>)}

\* the dicts from_dict is given: a union of one child, as to_dict writes it
UnionDicts == {ClauseToDict(DisjunctiveClause(None, <<c>>, 0).v, "latest") : c \in UnionChildren}

\* no clause yet
InitUnion ==
    /\ cl = NoClause
    /\ clres = NoRes
    /\ q = UnarySelectQuery0
    /\ res = NoRes
    /\ heap = NoHeap

\* the clause a constructor call op(arg) with outcome x leaves when it is made
\* in the course of a behaviour, and its record
Constructed(op, arg, x) ==
    /\ cl' = IF x.ok THEN x.v ELSE NoClause
    /\ clres' = Outcome(op, arg, x)
    /\ UNCHANGED <<q, res, heap>>

\* cl = DisjunctiveClause(subject=..., clauses=[...])
UnionConstruct ==
    /\ clres.op = ""
    /\ \E subject \in UnionSubjects : \E clauses \in UnionLists : \E rnd \in Rand :
          Constructed("DisjunctiveClause", [subject |-> subject, clauses |-> clauses],
                      DisjunctiveClause(subject, clauses, rnd))

UnionRoom == cl.type = "union" /\ Len(cl.clauses) < MaxChildren

\* a mutator op(arg) of cl with outcome x
MutateClause(op, arg, x) ==
    /\ cl' = x.v
    /\ clres' = Outcome(op, arg, x)
    /\ UNCHANGED <<q, res, heap>>

\* cl.add_clause(clause)
UnionAddClause ==
    UnionRoom /\ \E c \in UnionChildren : MutateClause("add_clause", c, Ok(add_clause(cl, c)))

\* cl.add_atomic_clause(property, argument, method)
UnionAddAtomicClause ==
    UnionRoom /\ \E a \in {Val(TEXT), PyStr(<<"?", "-">>)} :
                    MutateClause("add_atomic_clause", a,
                                 add_atomic_clause(cl, Id(NAME), a, "EXACT", FALSE, FALSE))

\* the subject keyword of from_dict: not given, or given as one of the subjects
SubjectKws == {[given |-> FALSE, subject |-> None]} \cup [given : {TRUE}, subject : UnionSubjects]

\* cl.from_dict(data) and cl.from_dict(data, subject=subject)
UnionFromDict ==
    UnionRoom /\ \E data \in UnionDicts : \E kw \in SubjectKws :
                    MutateClause("from_dict", [data |-> data, kw |-> kw],
                                 DisjunctiveFromDict(cl, data, kw.given, kw.subject, << >>, 0))

NextUnion == UnionConstruct \/ UnionAddClause \/ UnionAddAtomicClause \/ UnionFromDict

SpecUnion == InitUnion /\ [][NextUnion]_vars

(***************************************************************************)
(* A query filled from dicts: q.from_dict(data), and q.add with keyword     *)
(* data that names the clause's subject                                    *)
(***************************************************************************)
Item(key, val) == [key |-> key, val |-> val]
\* the dict of an atomic clause on a property with a value, preceded by the
\* entries given
ClauseDict(entries) ==
    entries \o << Item("property", TermV(PyStr(AGE))), Item("value", TermV(PyStr(TEXT))) >>
\* {'clauses': [...]} and, for a composite clause dict, its type before it
ClausesDict(dicts) == << Item("clauses", ListV(dicts)) >>
CompositeDict(type, dicts) == << Item("type", StrV(type)) >> \o ClausesDict(dicts)

\* query dicts from_dict accepts
DictOptions == << Item("graph", StrV("g")), Item("limit", NumV(5)), Item("lang", StrV("it")),
                  Item("minScore", NumV(2)), Item("dataset", StrV("d")) >>
DictKeywordClause ==
    ClausesDict(<< ClauseDict(<< Item("method", StrV("keyword_search")) >>) >>)
DictConjunction ==
    ClausesDict(<< CompositeDict("conjunction",
                                 << ClauseDict(<< >>),
                                    ClauseDict(<< Item("method", StrV("keyword_search")) >>) >>) >>)
\* a union whose children name different subjects
DictMixedUnion ==
    ClausesDict(<< CompositeDict("union",
                                 << ClauseDict(<< Item("subject", TermV(PyStr(ALICE))) >>),
                                    ClauseDict(<< Item("subject", TermV(PyStr(BOB))) >>) >>) >>)
\* a clause whose subject is the sentinel
DictSentinel ==
    ClausesDict(<< ClauseDict(<< Item("subject", TermV(PyStr(QUERY_SUBJECT))) >>) >>)
\* a top-level key from_dict does not know, before one it knows
DictUnknownKey == << Item("foo", NumV(1)), Item("limit", NumV(5)) >>
\* query dicts with a flaw, each with the cause the flaw raises
DictBadLimit == << Item("limit", StrV("abc")) >>
DictBadScore == << Item("min_score", StrV("x")) >>
DictBadSubject == << Item("subject", TermV(PyStr(<<"?", "a", " ", "b">>))) >>
DictBadClauseType == ClausesDict(<< ClauseDict(<< Item("type", StrV("zzz")) >>) >>)
DictBadClauseKey == ClausesDict(<< ClauseDict(<< >>) \o << Item("foo", NumV(1)) >> >>)
DictWrongClauseType ==
    ClausesDict(<< CompositeDict("union", << ClauseDict(<< Item("type", StrV("union")) >>) >>) >>)

QueryDicts == { DictOptions, DictKeywordClause, DictConjunction, DictMixedUnion, DictSentinel,
                DictUnknownKey, DictBadLimit, DictBadScore, DictBadSubject, DictBadClauseType,
                DictBadClauseKey, DictWrongClauseType }

\* the draw sites of from_dict: the composite clauses it builds, at the places
\* their clauses take in self.clauses
FromDictSites(self, data) ==
    LET dicts == ClausesOf(data)
    IN  {<<Len(self.clauses) + k, 0>> :
            k \in {n \in 1..Len(dicts) : DictGetOr(dicts[n], "type", StrV("atomic")) # StrV("atomic")}}

\* q.from_dict(data)
FromDict ==
    Room /\ \E data \in QueryDicts : \E r \in [FromDictSites(q, data) -> Rand] :
                Mutate("from_dict", data, QueryFromDict(q, data, r))

\* keyword data that names the subject of the clause
SubjectKwInputs ==
    { ClauseDict(<< Item("subject", TermV(PyStr(QUERY_SUBJECT))) >>),
      ClauseDict(<< Item("subject", TermV(PyStr(BOB))) >>) }

\* q.add(subject=..., property=..., value=...)
AddKwSubject ==
    Room /\ \E kwargs \in SubjectKwInputs :
                Mutate("add(**kwargs)", kwargs, UnaryAddKw(q, kwargs, << >>))

NextFromDict == FromDict \/ AddKwSubject

SpecFromDict == Init /\ [][NextFromDict]_vars

(***************************************************************************)
(* Clauses filled from dicts on their own: a new AtomicClause,             *)
(* ConjunctiveClause or DisjunctiveClause and its from_dict; the terms an  *)
(* AtomicClause makes of the values it is constructed or filled with       *)
(***************************************************************************)
\* the clause dicts from_dict is given: every recognized key; a key it does not
\* know, last, first, and after or before an entry it refuses
AtomicDicts ==
    { << Item("type", StrV("atomic")), Item("subject", TermV(PyStr(BOB))),
         Item("property", TermV(PyStr(AGE))), Item("variable", TermV(PyStr(<<"x">>))),
         Item("argument", TermV(PyStr(BOB))), Item("identifier", TermV(PyStr(BOB))),
         Item("value", TermV(PyStr(TEXT))), Item("method", StrV("greater_than")),
         Item("project", BoolV(FALSE)), Item("optional", BoolV(TRUE)) >>,
      ClauseDict(<< >>),
      ClauseDict(<< >>) \o << Item("foo", NumV(1)) >>,
      ClauseDict(<< Item("foo", NumV(1)) >>),
      << Item("method", StrV("bogus")), Item("foo", NumV(1)) >>,
      << Item("foo", NumV(1)), Item("method", StrV("bogus")) >> }

\* the lists of at most MaxChildren of them
AtomicDictLists == UNION {[1..n -> AtomicDicts] : n \in 1..MaxChildren}

\* the subject keyword from_dict is given: none, an Identifier, a bad name
FromDictSubjects == {None, Id(ALICE), PyStr(<<"?", "a", " ", "b">>)}

\* a new AtomicClause()
InitClauseFromDict ==
    /\ cl = AtomicClause0
    /\ clres = NoRes
    /\ q = UnarySelectQuery0
    /\ res = NoRes
    /\ heap = NoHeap

\* the clause a from_dict call op(arg) with outcome x leaves, filled as far as
\* from_dict came, and its record; each call is made on a clause just built,
\* so one call is followed from the start
Filled(op, arg, x) ==
    /\ clres.op = ""
    /\ cl' = x.v
    /\ clres' = Outcome(op, arg, x)

\* cl = AtomicClause(); cl.from_dict(data, subject=subject)
AtomicFromDictCall ==
    /\ \E data \in AtomicDicts : \E subject \in FromDictSubjects :
          Filled("AtomicClause.from_dict", [dicts |-> <<data>>, subject |-> subject],
                 AtomicFromDict(AtomicClause0, data, subject, 0))
    /\ UNCHANGED <<q, res, heap>>

\* cl = ConjunctiveClause(); cl.from_dict({'clauses': dicts}, subject=subject)
ConjunctiveFromDictCall ==
    /\ \E dicts \in AtomicDictLists : \E subject \in FromDictSubjects : \E rnd \in Rand :
          Filled("ConjunctiveClause.from_dict", [dicts |-> dicts, subject |-> subject],
                 ConjunctiveFromDict(ConjunctiveClause(<< >>, FALSE, rnd),
                                     ClausesDict(dicts), subject, << >>, 0))
    /\ UNCHANGED <<q, res, heap>>

\* cl = DisjunctiveClause(); cl.from_dict({'clauses': dicts}, subject=subject)
DisjunctiveFromDictCall ==
    /\ \E dicts \in AtomicDictLists : \E subject \in FromDictSubjects : \E rnd \in Rand :
          Filled("DisjunctiveClause.from_dict", [dicts |-> dicts, subject |-> subject],
                 DisjunctiveFromDict(DisjunctiveClause(None, << >>, rnd).v,
                                     ClausesDict(dicts), TRUE, subject, << >>, 0))
    /\ UNCHANGED <<q, res, heap>>

\* the bare strings a clause is given as its argument: variable names good and
\* bad, URI references prefixed and bracketed, plain text
BareStrings ==
    { <<"?", "x">>, <<"?", "a", " ", "b">>, <<"?">>, BOB, <<"<", "e", ":", "b", ">">>,
      TEXT, <<"h", " ", "w">> }

\* cl = AtomicClause(property=..., argument=<str>)
ArgumentConstructCall ==
    /\ \E s \in BareStrings :
          Filled("AtomicClause(argument)", PyStr(s),
                 AtomicClause(None, Id(AGE), PyStr(s), None, "ANY", TRUE, FALSE))
    /\ UNCHANGED <<q, res, heap>>

\* cl.from_dict({key: <str>}) with the string cl was constructed from, the key
\* being one of those that carry the argument
ArgumentFromDictCall ==
    /\ clres.op = "AtomicClause(argument)"
    /\ clres.ok
    /\ \E key \in {"argument", "identifier", "value"} :
          LET data == << Item(key, TermV(clres.arg)) >>
              x == AtomicFromDict(cl, data, None, 0)
          IN  /\ cl' = x.v
              /\ clres' = Outcome("from_dict", data, x)
    /\ UNCHANGED <<q, res, heap>>

\* what Variable is constructed from: names with and without the leading ?,
\* strings that are no names, nothing, and ints
VariableInputs ==
    { PyStr(<<"x">>), PyStr(<<"?", "x">>), PyStr(<<"A", "_", "1">>), PyStr(<<"?">>),
      PyStr(<<"?", "?">>), PyStr(<<"?", "a", "?", "b">>), PyStr(<<"a", "?", "b">>),
      PyStr(<<"a", " ", "b">>), PyStr(<<"?", "a", " ", "b">>), PyStr(<<"a", "-", "b">>),
      PyStr(<< >>), None, PyInt(<<"0">>), PyInt(<<"5">>) }

\* cl = AtomicClause(); cl.from_dict({'variable': value}), which constructs
\* Variable(value)
VariableFromDictCall ==
    /\ \E value \in VariableInputs : \E rnd \in Rand :
          Filled("from_dict", << Item("variable", TermV(value)) >>,
                 AtomicFromDict(AtomicClause0, << Item("variable", TermV(value)) >>, None, rnd))
    /\ UNCHANGED <<q, res, heap>>

NextClauseFromDict ==
    \/ AtomicFromDictCall \/ ConjunctiveFromDictCall \/ DisjunctiveFromDictCall
    \/ ArgumentConstructCall \/ ArgumentFromDictCall \/ VariableFromDictCall

SpecClauseFromDict == InitClauseFromDict /\ [][NextClauseFromDict]_vars

(***************************************************************************)
(* A query of atomic, conjunctive and disjunctive clauses, rendered by     *)
(* generate_query                                                          *)
(***************************************************************************)
\* composite clauses whose children were built without a subject
CompositeInputs ==
    { ConjunctiveClause(<< AtomicClause(None, Id(AGE), Val(TEXT), None, "EXACT", FALSE, FALSE).v >>,
                        FALSE, 0),
      DisjunctiveClause(None,
                        << AtomicClause(None, Id(AGE), Val(TEXT), None, "EXACT", FALSE, FALSE).v,
                           AtomicClause(None, Id(NAME), Val(TEXT), None, "EXACT", FALSE, FALSE).v >>,
                        0).v }

\* q.add(clause) for a composite clause
AddComposite ==
    Room /\ \E c \in CompositeInputs : Mutate("add", c, Ok(UnaryAddClause(q, c)))

NextRender == Add \/ AddKinds \/ AddComposite \/ GenerateQuery

SpecRender == Init /\ [][NextRender]_vars

(***************************************************************************)
(* One composite clause on its own, constructed with its children and      *)
(* rendered by generate_clause                                             *)
(***************************************************************************)
\* the children: defined atomic clauses on one subject, each with a text of its
\* own that is rendered without a Variable() being minted
RenderedChildren ==
    { AtomicClause(Id(ALICE), Id(AGE), Val(TEXT), None, "EXACT", FALSE, FALSE).v,
      AtomicClause(Id(ALICE), Id(NAME), Var(<<"x">>), None, "ANY", TRUE, FALSE).v,
      AtomicClause(Id(ALICE), Id(KIND1), Val(TEXT), None, "KEYWORD", FALSE, FALSE).v }

\* cl = ConjunctiveClause(clauses=[...], optional=...) and
\* cl = DisjunctiveClause(clauses=[...])
CompositeConstruct ==
    /\ clres.op = ""
    /\ \E clauses \in UNION {[1..n -> RenderedChildren] : n \in 0..MaxRendered} :
          \/ \E optional \in BOOLEAN :
                Constructed("ConjunctiveClause", clauses,
                            Ok(ConjunctiveClause(clauses, optional, 0)))
          \/ Constructed("DisjunctiveClause", clauses, DisjunctiveClause(None, clauses, 0))

NextComposite == CompositeConstruct \/ GenerateClause

SpecComposite == InitUnion /\ [][NextComposite]_vars

(***************************************************************************)
(* Two instances built one after the other from the same arguments.  The   *)
(* list objects are kept apart from the instances that hold them:          *)
(* heap.lists[n] is the content of the list object at address n, and the   *)
(* clauses field of an instance in heap is the address of its list.  The   *)
(* mutators act on the first instance, a.                                  *)
(***************************************************************************)
\* the clauses the caller holds, all on one subject
ShareChildren ==
    { AtomicClause(Id(ALICE), Id(AGE), Val(TEXT), None, "EXACT", FALSE, FALSE).v,
      AtomicClause(Id(ALICE), Id(NAME), Var(<<"x">>), None, "ANY", TRUE, FALSE).v }

\* the clauses argument: not given, or a list object of the caller
ShareArgs ==
    {[given |-> FALSE, elems |-> << >>]}
    \cup [given : {TRUE}, elems : UNION {[1..n -> ShareChildren] : n \in 0..(MaxChildren - 1)}]

\* CompositeClause.__init__ (lines 335-338): self.clauses is the list object
\* the caller gave, at address 1, unless that is empty or missing: then a new
\* list object
CompositeList(lists, arg) ==
    IF arg.given /\ Len(arg.elems) > 0 THEN [lists |-> lists, at |-> 1]
    ELSE [lists |-> Append(lists, << >>), at |-> Len(lists) + 1]

\* SelectQuery.__init__ (lines 473-476): self.clauses is a new list object to
\* which the clauses given are appended
QueryList(lists, arg) == [lists |-> Append(lists, arg.elems), at |-> Len(lists) + 1]

\* the instance of the class as the constructor leaves it, its list held at the
\* address given
Instance(class, arg, at, rnd) ==
    LET obj == CASE class = "conjunction" -> ConjunctiveClause(arg.elems, FALSE, rnd)
                 [] class = "union" -> DisjunctiveClause(None, arg.elems, rnd).v
                 [] class = "query" -> UnarySelectQuery0
    IN  [class |-> class, obj |-> [obj EXCEPT !.clauses = at]]

\* the instance with its list read from the heap
Object(h, x) == [x.obj EXCEPT !.clauses = h.lists[x.obj.clauses]]

\* the heap after a mutator of a has left a as v: the mutators append to and
\* insert into the list object in place
Store(h, v) ==
    [h EXCEPT !.lists[h.a.obj.clauses] = v.clauses,
              !.a.obj = [v EXCEPT !.clauses = h.a.obj.clauses]]

InitShare ==
    /\ q = UnarySelectQuery0
    /\ res = NoRes
    /\ cl = NoClause
    /\ clres = NoRes
    /\ heap = NoHeap

\* a = C(clauses=L); b = C(clauses=L) for C one of ConjunctiveClause,
\* DisjunctiveClause and UnarySelectQuery, every other parameter at its default
ShareConstruct ==
    /\ heap.a.class = "none"
    /\ \E class \in {"conjunction", "union", "query"} : \E arg \in ShareArgs : \E ra, rb \in Rand :
          LET caller == IF arg.given THEN <<arg.elems>> ELSE << >>
              la == IF class = "query" THEN QueryList(caller, arg) ELSE CompositeList(caller, arg)
              lb == IF class = "query" THEN QueryList(la.lists, arg) ELSE CompositeList(la.lists, arg)
          IN  heap' = [lists |-> lb.lists,
                       a |-> Instance(class, arg, la.at, ra),
                       b |-> Instance(class, arg, lb.at, rb)]
    /\ UNCHANGED <<q, res, cl, clres>>

\* a.add_clause(clause)
ShareAddClause ==
    /\ heap.a.class \in {"conjunction", "union"}
    /\ Len(Object(heap, heap.a).clauses) < MaxChildren
    /\ \E c \in ShareChildren : heap' = Store(heap, add_clause(Object(heap, heap.a), c))
    /\ UNCHANGED <<q, res, cl, clres>>

\* a.add_atomic_clause(property, argument)
ShareAddAtomicClause ==
    /\ heap.a.class \in {"conjunction", "union"}
    /\ Len(Object(heap, heap.a).clauses) < MaxChildren
    /\ \E p \in {Id(AGE), Id(NAME)} :
          heap' = Store(heap, add_atomic_clause(Object(heap, heap.a), p, Val(TEXT),
                                                "EXACT", FALSE, FALSE).v)
    /\ UNCHANGED <<q, res, cl, clres>>

\* a.add(clause), the clause having its subject
ShareAdd ==
    /\ heap.a.class = "query"
    /\ Len(Object(heap, heap.a).clauses) < MaxClauses
    /\ \E c \in ShareChildren : heap' = Store(heap, UnaryAddClause(Object(heap, heap.a), c))
    /\ UNCHANGED <<q, res, cl, clres>>

\* a.add_kinds(kind_refs)
ShareAddKinds ==
    /\ heap.a.class = "query"
    /\ Len(Object(heap, heap.a).clauses) < MaxClauses
    /\ \E kinds \in KindLists : heap' = Store(heap, add_kinds(Object(heap, heap.a), kinds).v)
    /\ UNCHANGED <<q, res, cl, clres>>

NextShare == ShareConstruct \/ ShareAddClause \/ ShareAddAtomicClause \/ ShareAdd \/ ShareAddKinds

SpecShare == InitShare /\ [][NextShare]_vars

(***************************************************************************)
(* Properties                                                              *)
(***************************************************************************)
IsKeyword(c) == c.type = "atomic" /\ c.method = "KEYWORD"

\* C1: whenever the clause list of a query built with any sequence of add
\* calls holds a KEYWORD clause, a KEYWORD clause is at index 0, no other kind
\* of clause precedes a KEYWORD clause, and is_scored() is true.
C1_KeywordFirst ==
    \A j \in 1..Len(q.clauses) :
        IsKeyword(q.clauses[j]) =>
            /\ IsKeyword(q.clauses[1])
            /\ \A i \in 1..j : IsKeyword(q.clauses[i])
            /\ is_scored(q)

\* C1, its case: add has just been given a KEYWORD clause, which now stands
\* first although a clause of another kind was added before it
C1_Witness ==
    /\ res.op = "add"
    /\ IsKeyword(res.arg)
    /\ Len(q.clauses) >= 2
    /\ [q.clauses[1] EXCEPT !.subject = res.arg.subject] = res.arg
    /\ ~IsKeyword(q.clauses[Len(q.clauses)])

\* the clause add_kinds adds for the first kind: mandatory, EXACT, on rdf:type
KindClause(subject, kind) ==
    MkAtomic(subject, RDF_TYPE, Identifier(kind), None, "EXACT", FALSE, FALSE)
\* the union add_kinds adds for the kinds after the first
KindUnionClause(subject, kinds) ==
    MkComposite("union", subject,
                [k \in 1..(Len(kinds) - 1) |-> KindClause(subject, kinds[k + 1])], FALSE)
\* the projecting clause that binds the kind variable
KindVarClause(subject) ==
    MkAtomic(subject, RDF_TYPE, Obj("Variable", <<"?">> \o _KINDVAR), None, "ANY", TRUE, FALSE)
IsKindVarClause(c) ==
    c.type = "atomic" /\ c.project /\ c.argument = Obj("Variable", <<"?">> \o _KINDVAR)
\* how many clauses of the list satisfy the test
HowMany(clauses, Test(_)) == Cardinality({i \in 1..Len(clauses) : Test(clauses[i])})
\* the step is add_kinds, given n kinds (at least n when more), on a query with
\* no clauses
AddsKindsToEmpty(n, more) ==
    /\ res'.op = "add_kinds"
    /\ Len(q.clauses) = 0
    /\ IF more THEN Len(res'.arg) >= n ELSE Len(res'.arg) = n

Kept(c) == [c EXCEPT !.variable = None,
                     !.clauses = [k \in 1..Len(@) |-> [@[k] EXCEPT !.variable = None]]]
\* the same clauses, in the same order among the KEYWORD clauses and in any
\* order among the others
SameClauses(a, b) ==
    /\ Len(a) = Len(b)
    /\ \A i \in 1..Len(a) :
          HowMany(a, LAMBDA c : Kept(c) = Kept(a[i])) = HowMany(b, LAMBDA c : Kept(c) = Kept(a[i]))
    /\ SelectSeq(a, IsKeyword) = SelectSeq(b, IsKeyword)

\* C4: for both versions, UnarySelectQuery.new(q.to_dict(version)) succeeds and
\* has the subject, the clauses, the graph, the limit, the language and the
\* minimum score of q.
C4_RoundTrip ==
    res.op = "new" =>
        /\ res.ok
        /\ res.query.subject = q.subject
        /\ SameClauses([i \in 1..Len(q.clauses) |-> Kept(q.clauses[i])],
                       [i \in 1..Len(res.query.clauses) |-> Kept(res.query.clauses[i])])
        /\ res.query.graph = q.graph
        /\ res.query.limit = q.limit
        /\ res.query.lang = q.lang
        /\ res.query.min_score = q.min_score

\* C5: DisjunctiveClause(subject, clauses) raises ValueError "Invalid union
\* clauses" when two of the clauses have different subjects and returns a union
\* holding the clauses when all have one subject, the empty list included.
C5_UnionValidated ==
    clres.op = "DisjunctiveClause" =>
        LET clauses == clres.arg.clauses
            shared == \A i, j \in 1..Len(clauses) : clauses[i].subject = clauses[j].subject
        IN  /\ shared => clres.ok /\ cl.type = "union" /\ cl.clauses = clauses
            /\ ~shared => ~clres.ok /\ clres.exc = "ValueError"
                          /\ clres.msg = "Invalid union clauses"

\* C5, its case: the constructor has refused two clauses of different subjects
C5_Witness ==
    /\ clres.op = "DisjunctiveClause"
    /\ Len(clres.arg.clauses) = 2
    /\ clres.arg.clauses[1].subject # clres.arg.clauses[2].subject
    /\ ~clres.ok

\* C6: in every state of a DisjunctiveClause, after its construction and after
\* any add_clause, add_atomic_clause and from_dict, every child has the subject
\* the DisjunctiveClause carries.
C6_ChildrenShareSubject ==
    cl.type = "union" =>
        \A i \in 1..Len(cl.clauses) : cl.clauses[i].subject = cl.subject

\* subject, property, or both argument and variable missing
Undefined(c) ==
    \/ ~Truthy(c.subject)
    \/ ~Truthy(c.property)
    \/ (~Truthy(c.argument) /\ ~Truthy(c.variable))

\* C7 as the specification words it: for an AtomicClause with a part missing,
\* to_dict and generate_clause both fail with "Clause not defined".
C7_AsSpecified ==
    (cl.type = "atomic" /\ Undefined(cl) /\ clres.op \in {"to_dict", "generate_clause"}) =>
        ~clres.ok /\ clres.msg = "Clause not defined"

\* C7, amended: for an AtomicClause with a part missing, generate_clause
\* raises ValueError "Clause not defined" and returns no text, while to_dict
\* makes no such check and returns the dict of the parts the clause has.
C7_UndefinedClause ==
    (cl.type = "atomic" /\ Undefined(cl)) =>
        /\ clres.op = "generate_clause" =>
              /\ ~clres.ok
              /\ clres.exc = "ValueError"
              /\ clres.msg = "Clause not defined"
              /\ clres.text = << >>
        /\ clres.op = "to_dict" =>
              /\ clres.ok
              /\ {"property", "method", "project", "optional"} \subseteq DictKeys(clres.dict)
              /\ DictGet(clres.dict, "property") = TermV(cl.property)

\* C7, its case: generate_clause has refused a clause that has a subject and an
\* argument and no property
C7_Witness ==
    /\ cl.type = "atomic"
    /\ Truthy(cl.subject) /\ Truthy(cl.argument) /\ ~Truthy(cl.property)
    /\ clres.op = "generate_clause"
    /\ ~clres.ok

\* the clause add_fetch_clause makes, before add gives it a subject
IsFetchClause(c) ==
    /\ c.type = "atomic"
    /\ c.method = "ANY" /\ c.project /\ c.optional
    /\ c.argument = None /\ c.variable = None
\* a query with an Identifier subject and the default options that holds
\* fetch clauses only
FetchOnly(self) ==
    /\ self.subject.k = "Identifier"
    /\ self.graph = "defaultGraph" /\ self.limit = -1 /\ self.lang = "en"
    /\ self.min_score = NoneV
    /\ \A i \in 1..Len(self.clauses) : IsFetchClause(self.clauses[i])
\* two dicts with the same keys and the same value under each key
SameDict(d, e) ==
    /\ Len(d) = Len(e)
    /\ DictKeys(d) = DictKeys(e)
    /\ \A key \in DictKeys(e) : DictGet(d, key) = DictGet(e, key)
\* the top level of the dict of a fetch-only query, the clause entries left out
FetchTop(self) ==
    << [key |-> "subject", val |-> TermV(self.subject)],
       [key |-> "graph", val |-> StrV("defaultGraph")],
       [key |-> "limit", val |-> NumV(-1)],
       [key |-> "lang", val |-> StrV("en")] >>
\* the entry the specification gives for a fetch clause
FetchEntry(c) ==
    << [key |-> "property", val |-> TermV(c.property)],
       [key |-> "method", val |-> StrV("any")],
       [key |-> "project", val |-> BoolV(TRUE)],
       [key |-> "optional", val |-> BoolV(TRUE)],
       [key |-> "type", val |-> StrV("atomic")] >>
\* the dict is the top level with a list of clause entries, one for each clause
\* of the query in order, each as Entry gives it
FetchDict(dict, self, Entry(_)) ==
    /\ DictKeys(dict) = DictKeys(FetchTop(self)) \cup {"clauses"}
    /\ Len(dict) = 5
    /\ \A key \in DictKeys(FetchTop(self)) : DictGet(dict, key) = DictGet(FetchTop(self), key)
    /\ DictGet(dict, "clauses").t = "list"
    /\ Len(DictGet(dict, "clauses").v) = Len(self.clauses)
    /\ \A i \in 1..Len(self.clauses) :
          SameDict(DictGet(dict, "clauses").v[i], Entry(self.clauses[i]))

HoldsAt(text, k, part) ==
    /\ k + Len(part) - 1 <= Len(text)
    /\ \A n \in 1..Len(part) : text[k + n - 1] = part[n]
\* the text holds OPTIONAL { <s> <p> ?var } for the clause, var any name
HoldsOptional(text, c) ==
    \E k \in 1..Len(text) :
        /\ HoldsAt(text, k, << Kw("OPTIONAL { "), Tm(N3(c.subject)), Kw(" "),
                               Tm(<<"<">> \o str(c.property) \o <<">">>), Kw(" ") >>)
        /\ HoldsAt(text, k + 6, << Kw(" }\n") >>)
        /\ text[k + 5].k = "tm"
        /\ Len(text[k + 5].s) > 1
        /\ text[k + 5].s[1] = "?"

\* C9: generate_query of a query with an Identifier subject s, the default
\* limit and fetch clauses only succeeds, and its text holds an
\* OPTIONAL { <s> <p> ?var } fragment for each fetch clause, no ORDER BY and no
\* LIMIT line.
C9_FetchRendered ==
    (res.op = "generate_query" /\ FetchOnly(q) /\ Len(q.clauses) > 0) =>
        /\ res.ok
        /\ \A i \in 1..Len(q.clauses) : HoldsOptional(res.text, q.clauses[i])
        /\ \A k \in 1..Len(res.text) :
              res.text[k] \notin {Kw("ORDER BY DESC(?"), Kw("LIMIT ")}

\* the keys of a dict that carry the argument
ArgumentKeys(d) == DictKeys(d) \cap {"value", "variable", "identifier"}
\* the key for the runtime type of an argument
KeyFor(argument) ==
    CASE argument.k = "Value" -> "value"
      [] argument.k = "Variable" -> "variable"
      [] argument.k = "Identifier" -> "identifier"

\* C10 as the specification words it: to_dict of a defined AtomicClause has
\* exactly one key among value, variable and identifier, the one for the runtime
\* type of the argument, and the argument under it; so with an explicit
\* variable too.
C10_AsSpecified ==
    (cl.type = "atomic" /\ ~Undefined(cl) /\ clres.op = "to_dict") =>
        /\ ArgumentKeys(clres.dict) = {KeyFor(cl.argument)}
        /\ DictGet(clres.dict, KeyFor(cl.argument)) = TermV(cl.argument)

\* C10, amended: to_dict of a defined AtomicClause without explicit variable has
\* exactly one key among value, variable and identifier, the one for the runtime
\* type of the argument, holding the argument.  With an explicit variable the
\* dict has the key variable holding the explicit variable, and beside it the
\* key value or identifier holding the argument when the argument is a Value
\* or an Identifier: two argument-carrying keys.
C10_ArgumentKeys ==
    (cl.type = "atomic" /\ ~Undefined(cl) /\ clres.op = "to_dict") =>
        IF ~Truthy(cl.variable)
        THEN /\ ArgumentKeys(clres.dict) = {KeyFor(cl.argument)}
             /\ DictGet(clres.dict, KeyFor(cl.argument)) = TermV(cl.argument)
        ELSE /\ ArgumentKeys(clres.dict) = {"variable", KeyFor(cl.argument)}
             /\ DictGet(clres.dict, "variable") = TermV(cl.variable)
             /\ cl.argument.k # "Variable" =>
                    DictGet(clres.dict, KeyFor(cl.argument)) = TermV(cl.argument)

\* C10, its case: to_dict has returned the dict of a defined clause that has a
\* Value argument and an explicit variable
C10_Witness ==
    /\ cl.type = "atomic" /\ ~Undefined(cl)
    /\ cl.argument.k = "Value"
    /\ Truthy(cl.variable)
    /\ clres.op = "to_dict"
    /\ ArgumentKeys(clres.dict) = {"value", "variable"}

\* the dicts of the children of a composite clause dict, none for an atomic one
ChildDicts(d) == IF DictHas(d, "clauses") THEN DictGet(d, "clauses").v ELSE << >>
\* the clause dicts of a query dict at every nesting level: the top-level ones
\* and the children of the composite ones
AllClauseDicts(dict) ==
    LET top == DictGet(dict, "clauses").v
    IN  {top[i] : i \in 1..Len(top)}
        \cup UNION { {ChildDicts(top[i])[j] : j \in 1..Len(ChildDicts(top[i]))} : i \in 1..Len(top) }
\* the discriminator a clause dict is to carry
Discriminator(d) ==
    IF ~DictHas(d, "clauses") THEN "atomic"
    ELSE IF DictHas(d, "subject") THEN "union" ELSE "conjunction"

\* C11: the dict of UnarySelectQuery.to_dict("v1.0.0") has no type key in any
\* clause dict, top-level or child of a composite, and in the dict of
\* to_dict("latest") every clause dict has its type: atomic, conjunction or union.
C11_Discriminator ==
    res.op = "to_dict" =>
        \A d \in AllClauseDicts(res.dict) :
            /\ res.version = "v1.0.0" => ~DictHas(d, "type")
            /\ res.version = "latest" =>
                  DictHas(d, "type") /\ DictGet(d, "type") = StrV(Discriminator(d))

\* the top-level keys UnarySelectQuery.from_dict is to recognize
QueryKeys == {"subject", "kinds", "clauses", "graph", "limit", "lang", "min_score",
              "minScore", "dataset"}

\* C12: q.from_dict(data) with a top-level key outside subject, kinds, clauses,
\* graph, limit, lang, min_score, minScore and dataset raises an error to the
\* caller and never returns normally.
C12_UnknownKeyRejected ==
    (res.op = "from_dict" /\ ~(DictKeys(res.arg) \subseteq QueryKeys)) =>
        ~res.ok /\ res.exc # ""

ClauseFromDictOps ==
    {"AtomicClause.from_dict", "ConjunctiveClause.from_dict", "DisjunctiveClause.from_dict"}
\* the subject keyword is one from_dict refuses
RefusedSubject(subject) ==
    /\ subject.k = "str"
    /\ StartsWith(subject.s, "?")
    /\ ~MatchesClass(subject.s, WordChar \cup {"?"})
\* an entry with a recognized key whose value from_dict refuses
RefusedEntry(e) ==
    \/ e.key = "method" /\ e.val \notin {StrV(ComparisonValue(m)) : m \in Comparisons}
    \/ e.key = "type" /\ e.val # StrV("atomic")
\* the first thing from_dict meets in the dict that it does not accept: the
\* subject keyword, a key it does not know, an entry it refuses, or nothing
FirstFlaw(d, subject) ==
    LET flawed == {i \in 1..Len(d) : ~IsClauseKey(d[i]) \/ RefusedEntry(d[i])}
        first == CHOOSE i \in flawed : \A j \in flawed : i <= j
    IN  IF RefusedSubject(AsTerm(DictGetOr(d, "subject", TermV(subject)))) THEN "subject"
        ELSE IF flawed = {} THEN "none"
        ELSE IF ~IsClauseKey(d[first]) THEN "key" ELSE "entry"
\* the same for a list of dicts read one after the other
FirstFlawOf(dicts, subject) ==
    LET flawed == {k \in 1..Len(dicts) : FirstFlaw(dicts[k], subject) # "none"}
    IN  IF flawed = {} THEN "none"
        ELSE FirstFlaw(dicts[CHOOSE k \in flawed : \A j \in flawed : k <= j], subject)
HasUnknownKey(dicts) ==
    \E k \in 1..Len(dicts) : \E i \in 1..Len(dicts[k]) : ~IsClauseKey(dicts[k][i])

\* C13 as the specification words it: from_dict of an AtomicClause, alone or as
\* a child of a ConjunctiveClause or DisjunctiveClause dict, raises "Invalid
\* clause key" for every dict that holds a key outside the recognized ones.
C13_AsSpecified ==
    (clres.op \in ClauseFromDictOps /\ HasUnknownKey(clres.arg.dicts)) =>
        ~clres.ok /\ clres.exc = "ValueError" /\ clres.msg = "Invalid clause key"

\* C13, amended: from_dict never returns normally from a dict that holds a key
\* outside the recognized ones, alone or as a child of a composite clause
\* dict.  It raises ValueError "Invalid clause key" when the unknown key is the
\* first thing it does not accept; when the subject keyword or an entry read
\* before the unknown key is refused, it raises that one's error instead.
C13_InvalidKey ==
    (clres.op \in ClauseFromDictOps /\ HasUnknownKey(clres.arg.dicts)) =>
        /\ ~clres.ok
        /\ clres.exc = "ValueError"
        /\ clres.msg = "Invalid clause key"
              <=> FirstFlawOf(clres.arg.dicts, clres.arg.subject) = "key"

\* C13, its case: ConjunctiveClause.from_dict has read a first child, which is
\* now in the clause, and has raised "Invalid clause key" on the second
C13_Witness ==
    /\ clres.op = "ConjunctiveClause.from_dict"
    /\ Len(clres.arg.dicts) = 2
    /\ ~HasUnknownKey(<<clres.arg.dicts[1]>>)
    /\ HasUnknownKey(<<clres.arg.dicts[2]>>)
    /\ Len(cl.clauses) = 1
    /\ ~clres.ok
    /\ clres.msg = "Invalid clause key"

\* the cause each flawed query dict raises inside from_dict
CauseOf(data) ==
    CASE data = DictBadLimit -> "invalid literal for int()"
      [] data = DictBadScore -> "could not convert string to float"
      [] data = DictBadSubject -> "Bad variable name"
      [] data = DictBadClauseType -> "Clause type unknown"
      [] data = DictBadClauseKey -> "Invalid clause key"
      [] data = DictWrongClauseType -> "wrong clause type"
      [] OTHER -> ""

\* C14: whatever is raised while q.from_dict(data) runs - an invalid clause
\* key, an unknown clause type, a wrong clause type, a non-numeric limit or
\* min_score, an invalid subject - reaches the caller as the one ValueError
\* "Malformed query due to: <cause>" with the cause in its message, and
\* from_dict raises no other kind of exception.
C14_Malformed ==
    res.op = "from_dict" =>
        /\ ~res.ok => res.exc = "ValueError:Malformed query" /\ res.msg # ""
        /\ CauseOf(res.arg) # "" => ~res.ok /\ res.msg = CauseOf(res.arg)

\* C14, its case: from_dict has met a union whose child dict says it is a
\* union, and has raised the malformed-query error that carries "wrong clause
\* type"
C14_Witness ==
    /\ res.op = "from_dict"
    /\ res.arg = DictWrongClauseType
    /\ ~res.ok
    /\ res.exc = "ValueError:Malformed query"
    /\ res.msg = "wrong clause type"

\* the subject entry of the clause dict is the sentinel "query.subject"
NamesQuerySubject(d) ==
    DictHas(d, "subject") /\ DictGet(d, "subject") = TermV(PyStr(QUERY_SUBJECT))

\* C15: a clause whose dict, given to from_dict or to add as keyword data, has
\* the subject "query.subject" gets the subject of the query it is added to,
\* an Identifier or a Variable, and never the Identifier "query.subject".
C15_Sentinel ==
    LET added == q.clauses[Len(q.clauses)]
    IN  /\ (res.op = "from_dict" /\ res.arg = DictSentinel) =>
              res.ok /\ added.subject = q.subject
        /\ (res.op = "add(**kwargs)" /\ NamesQuerySubject(res.arg)) =>
              res.ok /\ added.subject = q.subject
                     /\ added.subject # Identifier(PyStr(QUERY_SUBJECT))

\* some clause of the query, top-level or child of a composite one, uses KEYWORD
UsesKeyword(self) ==
    \E i \in 1..Len(self.clauses) :
        \/ IsKeyword(self.clauses[i])
        \/ \E j \in 1..Len(self.clauses[i].clauses) : IsKeyword(self.clauses[i].clauses[j])

\* C16: is_scored() is true exactly when some clause of the query uses the
\* KEYWORD comparison, the children of conjunctive and disjunctive clauses
\* counted as well as the top-level atomic clauses.
C16_ScoredNested == is_scored(q) <=> UsesKeyword(q)

\* the clause puts the name among the projected variables: it is a projecting
\* AtomicClause and the name is that of its argument or of its subject, a Variable
Projects(c, name) ==
    /\ c.type = "atomic" /\ c.project
    /\ \/ c.argument.k = "Variable" /\ c.argument.s = name
       \/ c.subject.k = "Variable" /\ c.subject.s = name

C18_ListWrapped ==
    [][res'.op = "add(list)" =>
          /\ res'.ok
          /\ Len(q'.clauses) = Len(q.clauses) + 1
          /\ SubSeq(q'.clauses, 1, Len(q.clauses)) = q.clauses
          /\ q'.clauses[Len(q'.clauses)].type = "conjunction"
          /\ q'.clauses[Len(q'.clauses)].clauses = res'.arg]_vars

NotKeyword(c) == ~IsKeyword(c)
\* a is the beginning of b / the end of b
IsPrefix(a, b) == Len(a) <= Len(b) /\ SubSeq(b, 1, Len(a)) = a
IsSuffix(a, b) == Len(a) <= Len(b) /\ SubSeq(b, Len(b) - Len(a) + 1, Len(b)) = a

\* C19: every call that adds to a query keeps the clauses that were there: the
\* clauses that are not KEYWORD clauses stay in the order in which they were
\* added, a new one going after them, and the KEYWORD clauses stay in their
\* order, a new one going before them.  add(clause) adds the one clause - first
\* when it is a KEYWORD clause, last otherwise - and a call that fails adds
\* nothing.
C19_OrderKept ==
    [][/\ IsPrefix(SelectSeq(q.clauses, NotKeyword), SelectSeq(q'.clauses, NotKeyword))
       /\ IsSuffix(SelectSeq(q.clauses, IsKeyword), SelectSeq(q'.clauses, IsKeyword))
       /\ ~res'.ok => q'.clauses = q.clauses
       /\ res'.op = "add" =>
             LET added == IF res'.arg.subject = None
                          THEN [res'.arg EXCEPT !.subject = q.subject] ELSE res'.arg
             IN  q'.clauses = IF IsKeyword(added) THEN <<added>> \o q.clauses
                              ELSE Append(q.clauses, added)]_vars

\* C19, its case: add has put a KEYWORD clause in front of two clauses of other
\* kinds, which are different and were added one after the other
C19_Witness ==
    /\ res.op = "add"
    /\ IsKeyword(res.arg)
    /\ Len(q.clauses) = 3
    /\ IsKeyword(q.clauses[1])
    /\ NotKeyword(q.clauses[2]) /\ NotKeyword(q.clauses[3])
    /\ q.clauses[2] # q.clauses[3]

\* the clause is rendered with a comparison filter
IsCompared(c) == c.type = "atomic" /\ c.method \in {"GREATER", "LESSER"}
\* the names Variable() can mint
Minted == {NewVariable(n).s : n \in Rand}

\* C20: generate_clause of a defined AtomicClause with method GREATER (LESSER)
\* writes one variable as the object of the triple and as the left operand of
\* the > (<) filter, whose right operand is the argument: the clause's explicit
\* variable when it has one, and otherwise a variable minted for the call.
C20_FilterVariable ==
    (IsCompared(cl) /\ clres.op = "generate_clause") =>
        /\ (is_defined(cl) /\ cl.property.k = "Identifier") => clres.ok
        /\ clres.ok =>
              LET first == IF cl.optional THEN 1 ELSE 0
                  object == clres.text[first + 5]
              IN  /\ object.k = "tm"
                  /\ clres.text[first + 8] = object
                  /\ clres.text[first + 9] = Kw(IF cl.method = "GREATER" THEN " > \"" ELSE " < \"")
                  /\ clres.text[first + 10] = Tm(str(cl.argument))
                  /\ IF Truthy(cl.variable) THEN object.s = cl.variable.s /\ object.s \notin Minted
                     ELSE object.s \in Minted

\* C20, its case: generate_clause has rendered a GREATER clause that has no
\* explicit variable, with a minted variable in the triple and in the filter
C20_Witness ==
    /\ clres.op = "generate_clause" /\ clres.ok
    /\ cl.type = "atomic" /\ cl.method = "GREATER"
    /\ ~Truthy(cl.variable) /\ ~cl.optional
    /\ clres.text[5] = Tm(NewVariable(MaxRand).s)
    /\ clres.text[8] = clres.text[5]

\* the call is cl.from_dict({key: value}) for one of the keys
FilledWith(r, keys) == r.op = "from_dict" /\ r.arg[1].key \in keys

\* C21: a bare string given as the argument of a clause is classified without
\* raising, as a Variable exactly when it begins with ?, and as the same kind
\* - Variable, Identifier or Value - by the constructor and by from_dict under
\* the keys argument, identifier and value.
C21_Classification ==
    [][/\ (clres'.op = "AtomicClause(argument)" \/ FilledWith(clres', {"argument", "identifier", "value"})) =>
             /\ clres'.ok
             /\ cl'.argument.k \in {"Variable", "Identifier", "Value"}
             /\ cl'.argument.k = "Variable" <=> StartsWith(cl'.argument.s, "?")
       /\ FilledWith(clres', {"argument", "identifier", "value"}) =>
             cl'.argument.k = cl.argument.k]_vars

\* C22: every Variable constructed - from a name with or without the leading
\* ?, from an int, from nothing - is ? followed by a name of one or more
\* characters of [A-Za-z0-9_], and the construction from a string that is no
\* such name, with or without the leading ?, fails.
C22_CanonicalVariable ==
    FilledWith(clres, {"variable"}) =>
        LET value == clres.arg[1].val.v
            name == IF StartsWith(value.s, "?") THEN Tail(value.s) ELSE value.s
        IN  /\ clres.ok =>
                  /\ cl.variable.k = "Variable"
                  /\ StartsWith(cl.variable.s, "?")
                  /\ MatchesClass(Tail(cl.variable.s), WordChar)
            /\ (value.k = "str" /\ Len(value.s) > 0 /\ ~MatchesClass(name, WordChar)) => ~clres.ok

\* C23: a call of add, add_kinds, add_clause or add_atomic_clause on one
\* instance leaves the clauses, the prefixes and the options of the other
\* instance as they were, whether the two were built without a clause list or
\* from one clause list of the caller.
C23_NothingShared ==
    [][heap.b.class # "none" => Object(heap', heap'.b) = Object(heap, heap.b)]_vars

\* the pieces of text generate_clause puts around the children of a composite
\* clause: indentation, braces, OPTIONAL and UNION
Layout == {"\t\t\t", "\t{\n", "\t\t{\n", "\t\t}\n", "\t}\n", "OPTIONAL", "\tUNION {\n"}
\* the token is one of the pieces of literal text given
IsKw(token, pieces) == token.k = "kw" /\ token.s \in pieces
IsLayout(token) == IsKw(token, Layout)
IsContent(token) == ~IsLayout(token)
\* the same token / the same text, token by token
Same(a, b) == a.k = b.k /\ a.s = b.s
SameText(a, b) == Len(a) = Len(b) /\ \A k \in 1..Len(a) : Same(a[k], b[k])
\* the texts of the children of the composite clause, one after the other
ChildrenTexts(c) == Flatten([j \in 1..Len(c.clauses) |-> GenerateAtomic(c.clauses[j], 0).v])
\* how many tokens of the text are the one given
Times(text, token) == Cardinality({k \in 1..Len(text) : Same(text[k], token)})

\* C24: generate_clause of a ConjunctiveClause with children writes the text of
\* every child once, in the order of the children: a single child alone, with
\* no block around it; two or more children in one block, which opens with
\* OPTIONAL exactly when the composite clause is optional.
C24_ConjunctionRendered ==
    (cl.type = "conjunction" /\ Len(cl.clauses) > 0 /\ clres.op = "generate_clause") =>
        /\ clres.ok
        /\ SameText(SelectSeq(clres.text, IsContent), ChildrenTexts(cl))
        /\ Len(cl.clauses) = 1 =>
              SelectSeq(clres.text, IsLayout) = <<Kw("\t\t\t")>>
        /\ Len(cl.clauses) > 1 =>
              /\ Times(clres.text, Kw("\t{\n")) = 1
              /\ Times(clres.text, Kw("OPTIONAL")) = IF cl.optional THEN 1 ELSE 0
              /\ IsKw(clres.text[IF cl.optional THEN 2 ELSE 1], {"\t{\n"})
              /\ IsKw(clres.text[Len(clres.text)], {"\t\t}\n"})

\* C25: generate_clause of a DisjunctiveClause with n children writes the text
\* of every child once, in the order of the children: for n >= 2 the first
\* child in the primary block and each of the other n - 1 children in a UNION
\* block of its own, n - 1 UNION blocks in all; for n = 1 the child in one
\* UNION block.
C25_UnionRendered ==
    (cl.type = "union" /\ Len(cl.clauses) > 0 /\ clres.op = "generate_clause") =>
        /\ clres.ok
        /\ SameText(SelectSeq(clres.text, IsContent), ChildrenTexts(cl))
        /\ Times(clres.text, Kw("\tUNION {\n")) =
              IF Len(cl.clauses) = 1 THEN 1 ELSE Len(cl.clauses) - 1
        /\ Len(cl.clauses) > 1 =>
              /\ SameText(SubSeq(clres.text, 1, 3),
                          <<Kw("\t{\n"), Kw("\t\t{\n"), Kw("\t\t\t")>>)
              /\ Same(clres.text[4], Head(ChildrenTexts(cl)))

\* the tokens of a query text between " WHERE {" and the closing brace
WhereBlock(text) ==
    LET open == CHOOSE k \in 1..Len(text) : IsKw(text[k], {" WHERE {\n"})
        close == CHOOSE k \in 1..Len(text) : IsKw(text[k], {"}\n"})
    IN  SubSeq(text, open + 1, close - 1)
\* the score-floor filter for a floor
ScoreFloor(min_score) ==
    << Kw("\tFILTER (?"), Tm(_SCOREVAR), Kw(" >= "), Nm(min_score), Kw(")\n") >>
\* the block ends with a score-floor filter
EndsWithFloor(block) ==
    Len(block) >= 5 /\ IsKw(block[Len(block) - 4], {"\tFILTER (?"})
\* the block without the score-floor filter at its end
WithoutFloor(block) ==
    IF EndsWithFloor(block) THEN SubSeq(block, 1, Len(block) - 5) ELSE block

IsAtomicClause(c) == c.type = "atomic"
IsConjunctiveClause(c) == c.type = "conjunction"
IsDisjunctiveClause(c) == c.type = "union"
\* the indentation generate_query writes before a clause
NotIndent(token) == ~IsKw(token, {"\t", "\t\t"})
\* the texts of the clauses, one after the other; no clause of the queries
\* rendered here has a Variable() minted for it
TextsOf(clauses) ==
    Flatten([k \in 1..Len(clauses) |-> generate_clause(clauses[k], << >>, 0, 0).v])

\* C26: the WHERE body of the text generate_query returns holds the text of
\* every top-level clause once.  A query without DisjunctiveClause has them in
\* the order of its clause list.  A query with a DisjunctiveClause has one
\* block with the atomic clauses and, after them, the conjunctive clauses, and
\* after that block the disjunctive clauses; the clauses of each of the three
\* kinds are in the order of the clause list.
C26_BodyOrder ==
    (res.op = "generate_query" /\ res.ok) =>
        SameText(SelectSeq(WithoutFloor(WhereBlock(res.text)), NotIndent),
                 IF \E i \in 1..Len(q.clauses) : IsDisjunctiveClause(q.clauses[i])
                 THEN <<Kw("\t{\n")>>
                      \o TextsOf(SelectSeq(q.clauses, IsAtomicClause))
                      \o TextsOf(SelectSeq(q.clauses, IsConjunctiveClause))
                      \o <<Kw("\t}\n")>>
                      \o TextsOf(SelectSeq(q.clauses, IsDisjunctiveClause))
                 ELSE TextsOf(q.clauses))

\* C26, its case: generate_query has rendered a query whose clause list has a
\* DisjunctiveClause before a ConjunctiveClause and after an atomic clause
C26_Witness ==
    /\ res.op = "generate_query" /\ res.ok
    /\ Len(q.clauses) = 3
    /\ IsAtomicClause(q.clauses[1])
    /\ IsDisjunctiveClause(q.clauses[2])
    /\ IsConjunctiveClause(q.clauses[3])

\* C27: the text generate_query returns has the filter FILTER (?_score >=
\* min_score) exactly when min_score is a number, 0 included, and then as the
\* last element of the WHERE block; with min_score None it has no such filter.
C27_ScoreFloor ==
    (res.op = "generate_query" /\ res.ok) =>
        LET block == WhereBlock(res.text)
        IN  IF q.min_score.t = "num"
            THEN /\ EndsWithFloor(block)
                 /\ SameText(SubSeq(block, Len(block) - 4, Len(block)), ScoreFloor(q.min_score.v))
                 /\ Times(res.text, Kw("\tFILTER (?")) = 1
            ELSE Times(res.text, Kw("\tFILTER (?")) = 0

\* C28: generate_clause of a defined AtomicClause with method SIMILARITY,
\* optional or not, does not raise and returns the empty text: no triple, no
\* terminator and no OPTIONAL wrapper.
C28_SimilarityEmpty ==
    (cl.type = "atomic" /\ cl.method = "SIMILARITY" /\ is_defined(cl)
     /\ clres.op = "generate_clause") =>
        clres.ok /\ Len(clres.text) = 0

\* the subject is an Identifier or a Variable
HasSubject(c) == c.subject.k \in {"Identifier", "Variable"}

\* C29: after add or from_dict has returned, every clause of the query - in
\* the clause list or a child of a conjunctive or disjunctive clause in it -
\* has an Identifier or a Variable as its subject, never None: the query's
\* subject where the clause was given without one.
C29_SubjectResolved ==
    (res.op \in {"add", "add(**kwargs)", "from_dict"} /\ res.ok) =>
        \A i \in 1..Len(q.clauses) :
            /\ HasSubject(q.clauses[i])
            /\ \A j \in 1..Len(q.clauses[i].clauses) : HasSubject(q.clauses[i].clauses[j])

\* C30: the text generate_query returns names the score variable ?_score - in
\* the SELECT list, in the FILTER of the score floor or in ORDER BY - only if
\* its WHERE body has the text of a KEYWORD clause, which binds it; the text
\* of a query with min_score set and no KEYWORD clause does not name it.
C30_ScoreBound ==
    (res.op = "generate_query" /\ res.ok) =>
        (Times(res.text, Tm(_SCOREVAR)) > 0 => Times(res.text, Kw(") text:query \"")) > 0)

====
